---- MODULE Spec2Model ----
(***************************************************************************)
(* Cache subsystem of the edge CDN proxy: the in-process Memory backend    *)
(* (MemoryCache over node-cache), the L1 backend (RedisCache), the L2      *)
(* backend (CassandraCache), their Hybrid composition (HybridCache) and    *)
(* the capacity manager that migrates L1 items to L2.                      *)
(*                                                                         *)
(* Time is a logical clock `now` in whole seconds.  Payloads are byte      *)
(* sequences.  Item fields that no operation ever reads back to take a     *)
(* decision (createdAt, contentType, etag, lastModified) are not part of   *)
(* the state.                                                              *)
(***************************************************************************)
EXTENDS Integers, Sequences, FiniteSets, TLC

\* ---------------------------------------------------------------- bounds
MaxTime == 3          \* the clock runs from tick 0 to tick MaxTime
MaxTtl  == 1          \* explicit ttl options are 1..MaxTtl seconds
MaxHits == 1          \* hit counters are driven up to MaxHits
MaxLen  == 6          \* length of the longest payload
MaxErrors == 1        \* most store faults one backend meets in a behaviour
MaxLimit == 2         \* getItemsByHitCount is asked for 0..MaxLimit items
Horizon == 1000       \* expiry timestamps at or past this second never come due

\* ------------------------------------------------------ program constants
CACHE_TTL == 1        \* CACHE.TTL, seconds
MAX_ITEMS == 2        \* CACHE.MAX_ITEMS (node-cache maxKeys)
MAX_SIZE  == 2        \* CACHE.MAX_SIZE, bytes
MsPerSec  == 1000     \* milliseconds per second
TicksPerSec == 2      \* the clock `now` counts half seconds
MsPerTick == MsPerSec \div TicksPerSec
REDIS_CAPACITY_THRESHOLD == 85
CASSANDRA_CAPACITY_THRESHOLD == 90

Keys == {"a", "b"}

\* The payloads offered to set(): the empty buffer, a one-byte buffer and a
\* buffer of MaxLen bytes.
Blob(n) == [i \in 1..n |-> (37 * i + 40) % 256]
Payloads == {Blob(0), Blob(1), Blob(MaxLen)}

\* The narrow inputs of the specifications that turn on which backend or
\* tier served a call, not on what the stores hold.
MgrKeys == {"a"}
MgrPayloads == {Blob(1)}
\* A short payload without metadata and a long one with it.
TickPayloads == {Blob(1), Blob(MaxLen)}

\* options.ttl: 0 stands for "absent" (undefined), otherwise seconds.
TtlOpts == 0..MaxTtl

Min(x, y) == IF x < y THEN x ELSE y
Max(x, y) == IF x > y THEN x ELSE y

\* Math.ceil(n * 0.2) and Math.ceil(n * 0.1) for the item counts of the model.
Ceil20(n) == (n + 4) \div 5
Ceil10(n) == (n + 9) \div 10

\* options.ttl || CACHE.TTL, in seconds
EffTtl(ttlOpt) == IF ttlOpt = 0 THEN CACHE_TTL ELSE ttlOpt
\* new Date(now.getTime() + ttl * 1000): the clock value ttl seconds from now
After(t, ttl) == t + ttl * TicksPerSec

\* contentType / etag / lastModified travel together as one metadata value:
\* undefined, null, the empty string or a proper value.
Falsy(m) == m \in {"undefined", "null", ""}
OrEmpty(m) == IF Falsy(m) THEN "" ELSE m            \* m || ''
OrNull(m) == IF Falsy(m) THEN "null" ELSE m         \* m || null
OrUndefined(m) == IF Falsy(m) THEN "undefined" ELSE m   \* m || undefined

VARIABLES
  now,               \* wall clock, in ticks of 1 / TicksPerSec second
  mcache,            \* node-cache `data`, in Object.keys (insertion) order
  currentCacheSize,  \* MemoryCache.currentCacheSize
  l1,                \* the Redis keyspace under the prefix: key -> hash
  l2,                \* the Cassandra cache table: cache_key -> row
  l1conn,            \* RedisCache.connected
  l2conn,            \* CassandraCache.connected
  redisConnected,    \* HybridCache.redisConnected
  cassandraConnected,\* HybridCache.cassandraConnected
  last,              \* the operation that completed last, and its result
  cdnCache,          \* the cache behind getCacheItem / setCacheItem
  req,               \* the CDN GET request in progress, or the last one
  mgr,               \* CacheManager: mode, initialized, backend
  errors,            \* the errors counter of MemoryCache, RedisCache, CassandraCache
  faults,            \* history: the store faults each backend has met so far
  sets,              \* the HybridCache.set calls in flight, per caller
  cap                \* CacheCapacityManager: its fields and the cycle in flight

memVars == <<mcache, currentCacheSize>>
tierVars == <<l1, l2, l1conn, l2conn, redisConnected, cassandraConnected>>
extVars == <<cdnCache, req, mgr, errors, faults, sets, cap>>
vars == <<now, mcache, currentCacheSize, l1, l2, l1conn, l2conn,
          redisConnected, cassandraConnected, last, cdnCache, req, mgr,
          errors, faults, sets, cap>>

\* A completed operation: its name, key and payload argument (set) or
\* returned payload (get), the returned size and expiresAt (for set: the
\* expiresAt asked for), its boolean result (true / hit) and, for a Memory
\* set, the number of keys its admission eviction removed; meta is the
\* metadata passed to set or returned by get.
NoData == <<>>
Op(op, key, data, size, exp, res) ==
  [op |-> op, key |-> key, data |-> data, size |-> size, exp |-> exp,
   res |-> res, evicted |-> 0, meta |-> "undefined"]
WithMeta(op, m) == [op EXCEPT !.meta = m]
NoOp == Op("none", "", NoData, 0, 0, FALSE)

\* A call of checkAndManageCapacity that has not returned: the items its
\* migration still has to move, the item it has read from L1 and not yet
\* written to L2, and the payload a HybridCache.set stored under that key
\* after the read.
Cycles == {1, 2}
NoCycle == [active |-> FALSE, todo |-> <<>>, held |-> NoOp, newer |-> NoData]

\* new CacheCapacityManager(): the thresholds take their defaults and the
\* constructor starts the monitoring.  active .. late describe the cycle
\* the timer started: the items it still has to move, whether
\* stopMonitoring was called since it began, and the set / delete commands
\* it has issued after that call.
NewCap ==
  [isRunning |-> TRUE, intervalId |-> TRUE,
   redisThreshold |-> REDIS_CAPACITY_THRESHOLD,
   cassandraThreshold |-> CASSANDRA_CAPACITY_THRESHOLD,
   active |-> FALSE, todo |-> <<>>, stopped |-> FALSE, late |-> 0,
   cycles |-> [c \in Cycles |-> NoCycle]]

\* Two requests may each have a HybridCache.set under way: the key and
\* value of the call, the tier writes it has issued and not yet seen
\* settle, and whether a tier has returned true.
Callers == {1, 2}
NoSet ==
  [phase |-> "idle", key |-> "", value |-> NoData, todo |-> {}, ok |-> FALSE,
   item |-> NoOp]

\* private errors = 0, one counter per backend object.
NoErrors == [mem |-> 0, l1 |-> 0, l2 |-> 0]

\* items.sort((a, b) => a.hitCount - b.hitCount): a stable ascending sort.
RECURSIVE InsertByHit(_, _)
InsertByHit(x, s) ==
  IF s = <<>> THEN <<x>>
  ELSE IF s[Len(s)].hitCount <= x.hitCount THEN Append(s, x)
  ELSE Append(InsertByHit(x, SubSeq(s, 1, Len(s) - 1)), s[Len(s)])

RECURSIVE SortByHit(_)
SortByHit(s) ==
  IF s = <<>> THEN <<>>
  ELSE InsertByHit(s[Len(s)], SortByHit(SubSeq(s, 1, Len(s) - 1)))

\* ===================================================================
\* Buffer.toString('base64') and Buffer.from(s, 'base64').  A base64 string
\* is a sequence of digit values 0..63, 64 standing for the padding '='.
\* ===================================================================
Pad == 64
RECURSIVE B64Encode(_)
B64Encode(b) ==
  IF Len(b) = 0 THEN <<>>
  ELSE IF Len(b) = 1
       THEN <<b[1] \div 4, (b[1] % 4) * 16, Pad, Pad>>
  ELSE IF Len(b) = 2
       THEN <<b[1] \div 4, (b[1] % 4) * 16 + b[2] \div 16, (b[2] % 16) * 4, Pad>>
  ELSE <<b[1] \div 4, (b[1] % 4) * 16 + b[2] \div 16,
         (b[2] % 16) * 4 + b[3] \div 64, b[3] % 64>>
       \o B64Encode(SubSeq(b, 4, Len(b)))

RECURSIVE B64Decode(_)
B64Decode(s) ==
  IF Len(s) < 4 THEN <<>>
  ELSE LET b1 == s[1] * 4 + s[2] \div 16
           b2 == (s[2] % 16) * 16 + (s[3] % 64) \div 4
           b3 == (s[3] % 4) * 64 + (s[4] % 64)
       IN  IF s[3] = Pad THEN <<b1>>
           ELSE IF s[4] = Pad THEN <<b1, b2>>
           ELSE <<b1, b2, b3>> \o B64Decode(SubSeq(s, 5, Len(s)))

\* ===================================================================
\* RedisCache (L1).  A key holds a hash; `full` tells that hmset wrote the
\* item fields, a hash made by hincrby alone holds only hitCount.  ttlAt is
\* the deadline of the store-native expiry, 0 when the key has none.
\* Every command takes the input f: the command fails (throws).
\* ===================================================================
Hash(full, data, size, exp, hits, ttlAt, meta) ==
  [present |-> TRUE, full |-> full, data |-> data, size |-> size,
   expiresAt |-> exp, hitCount |-> hits, ttlAt |-> ttlAt, meta |-> meta]
NoHash ==
  [present |-> FALSE, full |-> FALSE, data |-> <<>>, size |-> 0,
   expiresAt |-> 0, hitCount |-> 0, ttlAt |-> 0, meta |-> "null"]

\* hincrby(key, 'hitCount', 1): creates the hash when the key is absent.
L1IncOut(s, k, f) ==
  IF ~l1conn \/ f
  THEN [s |-> s, op |-> Op("l1.incrementHitCount", k, NoData, 0, 0, FALSE)]
  ELSE [s |-> [s EXCEPT ![k] =
                 IF @.present THEN [@ EXCEPT !.hitCount = @ + 1]
                 ELSE Hash(FALSE, <<>>, 0, 0, 1, 0, "null")],
        op |-> Op("l1.incrementHitCount", k, NoData, 0, 0, TRUE)]

L1DeleteOut(s, k, f) ==
  IF ~l1conn \/ f
  THEN [s |-> s, op |-> Op("l1.delete", k, NoData, 0, 0, FALSE)]
  ELSE [s |-> [s EXCEPT ![k] = NoHash],
        op |-> Op("l1.delete", k, NoData, 0, 0, s[k].present)]

\* The fields hmget returns that get tests with `!`: an absent field is
\* null, and data is the empty string for an empty payload.
L1Readable(h) == h.present /\ h.full /\ h.data # <<>>

L1GetOut(s, k, f) ==
  LET miss == Op("l1.get", k, NoData, 0, 0, FALSE) IN
  IF ~l1conn \/ f THEN [s |-> s, op |-> miss, hits |-> 0]
  ELSE IF ~L1Readable(s[k]) THEN [s |-> s, op |-> miss, hits |-> 0]
  ELSE IF s[k].expiresAt < now
       THEN [s |-> L1DeleteOut(s, k, FALSE).s, op |-> miss, hits |-> 0]
  ELSE [s |-> L1IncOut(s, k, FALSE).s,
        op |-> WithMeta(Op("l1.get", k, B64Decode(s[k].data), s[k].size,
                           s[k].expiresAt, TRUE), OrUndefined(s[k].meta)),
        hits |-> s[k].hitCount]

L1SetOut(s, k, v, m, ttlOpt, f) ==
  LET ttl == EffTtl(ttlOpt)
      exp == After(now, ttl)
      done(ok) == WithMeta(Op("l1.set", k, v, 0, exp, ok), m)
  IN  IF ~l1conn \/ f
      THEN [s |-> s, op |-> done(FALSE)]
      ELSE [s |-> [s EXCEPT ![k] = Hash(TRUE, B64Encode(v), Len(v), exp, 0,
                                        exp, OrEmpty(m))],
            op |-> done(TRUE)]

L1Exists(s, k) == l1conn /\ s[k].present

L1ClearOut(s, f) ==
  IF ~l1conn \/ f
  THEN [s |-> s, op |-> Op("l1.clear", "", NoData, 0, 0, FALSE)]
  ELSE [s |-> [k \in Keys |-> NoHash],
        op |-> Op("l1.clear", "", NoData, 0, 0, TRUE)]

L1KeySet(s) == {k \in Keys : s[k].present}

\* getStats().items: the number of keys under the prefix.
L1StatsItems(s) == IF l1conn THEN Cardinality(L1KeySet(s)) ELSE 0

\* getCapacityInfo(): used_memory and maxmemory as the store reports them.
\* The store's used memory is the payload bytes it holds.
L1_MAXMEMORY == 7
RECURSIVE SumOver(_, _)
SumOver(f, S) ==
  IF S = {} THEN 0
  ELSE LET x == CHOOSE y \in S : TRUE IN f[x].size + SumOver(f, S \ {x})
L1UsedBytes(s) == IF l1conn THEN SumOver(s, L1KeySet(s)) ELSE 0
L1MaxBytes == IF l1conn THEN L1_MAXMEMORY ELSE 0
L1ItemCount(s) == IF l1conn THEN Cardinality(L1KeySet(s)) ELSE 0
\* usedPercentage >= threshold, usedPercentage = used / max * 100 (0 if max = 0)
PctAbove(used, max, threshold) ==
  IF max > 0 THEN used * 100 > threshold * max ELSE 0 > threshold
PctAtLeast(used, max, threshold) ==
  IF max > 0 THEN used * 100 >= threshold * max ELSE 0 >= threshold
L1OverThreshold(s) ==
  PctAtLeast(L1UsedBytes(s), L1MaxBytes, cap.redisThreshold)

\* The orders in which a store may list its keys (KEYS, a table scan): ord
\* ranges over the permutations of Keys, the listing is the stored keys in
\* that order.
Orders ==
  {o \in [1..Cardinality(Keys) -> Keys] : \A i, j \in 1..Cardinality(Keys) :
                                            i # j => o[i] # o[j]}

\* getItemsByHitCount(limit): the first `limit` keys KEYS lists, those
\* whose hitCount, size and createdAt are all set, sorted by hitCount.
L1Items(s, limit, ord) ==
  IF ~l1conn THEN <<>>
  ELSE LET keys == SelectSeq(ord, LAMBDA k : s[k].present)
           head == SubSeq(keys, 1, Min(limit, Len(keys)))
           okk  == SelectSeq(head, LAMBDA k : s[k].full)
       IN  SortByHit([i \in 1..Len(okk) |->
                        [key |-> okk[i], hitCount |-> s[okk[i]].hitCount,
                         size |-> s[okk[i]].size]])

\* ===================================================================
\* CassandraCache (L2).  A row holds data (blob), size, expires_at; ttlAt is
\* the deadline of the row's USING TTL.
\* ===================================================================
Row(data, exp, hits, ttlAt, meta) ==
  [present |-> TRUE, data |-> data, size |-> Len(data), expiresAt |-> exp,
   hitCount |-> hits, ttlAt |-> ttlAt, meta |-> meta]
NoRow ==
  [present |-> FALSE, data |-> <<>>, size |-> 0, expiresAt |-> 0,
   hitCount |-> 0, ttlAt |-> 0, meta |-> "null"]

L2DeleteOut(s, k, f) ==
  IF ~l2conn \/ f
  THEN [s |-> s, op |-> Op("l2.delete", k, NoData, 0, 0, FALSE)]
  ELSE [s |-> [s EXCEPT ![k] = NoRow],
        op |-> Op("l2.delete", k, NoData, 0, 0, TRUE)]

L2GetOut(s, k, f) ==
  LET miss == Op("l2.get", k, NoData, 0, 0, FALSE) IN
  IF ~l2conn \/ f THEN [s |-> s, op |-> miss]
  ELSE IF ~s[k].present THEN [s |-> s, op |-> miss]
  ELSE IF s[k].expiresAt < now
       THEN [s |-> L2DeleteOut(s, k, FALSE).s, op |-> miss]
  ELSE [s |-> s,
        op |-> WithMeta(Op("l2.get", k, s[k].data, s[k].size, s[k].expiresAt,
                           TRUE), OrUndefined(s[k].meta))]

L2SetOut(s, k, v, m, ttlOpt, f) ==
  LET ttl == EffTtl(ttlOpt)
      exp == After(now, ttl)
      done(ok) == WithMeta(Op("l2.set", k, v, 0, exp, ok), m)
  IN  IF ~l2conn \/ f
      THEN [s |-> s, op |-> done(FALSE)]
      ELSE [s |-> [s EXCEPT ![k] = Row(v, exp, 0, exp, OrNull(m))],
            op |-> done(TRUE)]

L2Exists(s, k) == l2conn /\ s[k].present

L2ClearOut(s, f) ==
  IF ~l2conn \/ f
  THEN [s |-> s, op |-> Op("l2.clear", "", NoData, 0, 0, FALSE)]
  ELSE [s |-> [k \in Keys |-> NoRow],
        op |-> Op("l2.clear", "", NoData, 0, 0, TRUE)]

L2KeySet(s) == {k \in Keys : s[k].present}

\* getStats().items: COUNT(*) WHERE expires_at > now
L2StatsItems(s) ==
  IF l2conn THEN Cardinality({k \in L2KeySet(s) : s[k].expiresAt > now}) ELSE 0

\* getCapacityInfo() and getItemsByHitCount(limit) of the L2 backend: the
\* interface declares them and the capacity manager and HybridCache call
\* them.  usedPercentage is the row count against MAX_FILES; the list holds
\* the first `limit` rows of a scan (ord), ascending by hit count.
MAX_FILES == 2
L2ItemCount(s) == IF l2conn THEN Cardinality(L2KeySet(s)) ELSE 0
L2OverThreshold(s) ==
  PctAtLeast(L2ItemCount(s), MAX_FILES, cap.cassandraThreshold)
L2Items(s, limit, ord) ==
  IF ~l2conn THEN <<>>
  ELSE LET keys == SelectSeq(ord, LAMBDA k : s[k].present)
           head == SubSeq(keys, 1, Min(limit, Len(keys)))
       IN  SortByHit([i \in 1..Len(head) |->
                        [key |-> head[i], hitCount |-> s[head[i]].hitCount,
                         size |-> s[head[i]].size]])

\* ===================================================================
\* HybridCache
\* ===================================================================
AsHyb(op, name) == [op EXCEPT !.op = name]

\* get: L1 first; on an L1 miss L2, and an L2 hit is promoted into L1 with
\* the remaining ttl max(1, floor((expiresAt - now) / 1000)).  fp: the
\* promotion write fails.
PromoteTtl(exp) == Max(1, (exp - now) \div TicksPerSec)

\* The promotion: redisCache.set of the L2 item, issued only while the L1
\* flag is set.
PromoteSkipped(s, k, it, fp) == s
Promote(s, k, it, fp) ==
  IF redisConnected
  THEN L1SetOut(s, k, it.data, it.meta, PromoteTtl(it.exp), fp).s
  ELSE s

HybGetOut(s1, s2, k, f1, f2, fp) ==
  LET miss == Op("hyb.get", k, NoData, 0, 0, FALSE)
      r1 == IF redisConnected THEN L1GetOut(s1, k, f1)
            ELSE [s |-> s1, op |-> miss, hits |-> 0]
      r2 == IF cassandraConnected THEN L2GetOut(s2, k, f2)
            ELSE [s |-> s2, op |-> miss]
  IN  IF r1.op.res
      THEN [s1 |-> r1.s, s2 |-> s2, op |-> AsHyb(r1.op, "hyb.get")]
      ELSE IF r2.op.res
           THEN [s1 |-> Promote(r1.s, k, r2.op, fp),
                 s2 |-> r2.s, op |-> AsHyb(r2.op, "hyb.get")]
           ELSE [s1 |-> r1.s, s2 |-> r2.s, op |-> miss]

\* set / delete / clear: issued to every tier whose flag is set; the result
\* is true when at least one tier returned true.
BothTiers(a, b) == a /\ b
AnyTier(a, b) == a \/ b

HybSetOut(s1, s2, k, v, m, ttlOpt, f1, f2) ==
  LET r1 == IF redisConnected THEN L1SetOut(s1, k, v, m, ttlOpt, f1)
            ELSE [s |-> s1, op |-> NoOp]
      r2 == IF cassandraConnected THEN L2SetOut(s2, k, v, m, ttlOpt, f2)
            ELSE [s |-> s2, op |-> NoOp]
  IN  [s1 |-> r1.s, s2 |-> r2.s,
       op |-> WithMeta(Op("hyb.set", k, v, 0, After(now, EffTtl(ttlOpt)),
                          AnyTier(r1.op.res, r2.op.res)), m)]

HybDeleteOut(s1, s2, k, f1, f2) ==
  LET r1 == IF redisConnected THEN L1DeleteOut(s1, k, f1)
            ELSE [s |-> s1, op |-> NoOp]
      r2 == IF cassandraConnected THEN L2DeleteOut(s2, k, f2)
            ELSE [s |-> s2, op |-> NoOp]
  IN  [s1 |-> r1.s, s2 |-> r2.s,
       op |-> Op("hyb.delete", k, NoData, 0, 0, AnyTier(r1.op.res, r2.op.res))]

HybClearOut(s1, s2, f1, f2) ==
  LET r1 == IF redisConnected THEN L1ClearOut(s1, f1)
            ELSE [s |-> s1, op |-> NoOp]
      r2 == IF cassandraConnected THEN L2ClearOut(s2, f2)
            ELSE [s |-> s2, op |-> NoOp]
  IN  [s1 |-> r1.s, s2 |-> r2.s,
       op |-> Op("hyb.clear", "", NoData, 0, 0, AnyTier(r1.op.res, r2.op.res))]

\* incrementHitCount of the L2 tier: the row's counter goes up by one.
L2IncOut(s, k, f) ==
  IF ~l2conn \/ f
  THEN [s |-> s, op |-> Op("l2.incrementHitCount", k, NoData, 0, 0, FALSE)]
  ELSE [s |-> [s EXCEPT ![k] =
                 IF @.present THEN [@ EXCEPT !.hitCount = @ + 1] ELSE @],
        op |-> Op("l2.incrementHitCount", k, NoData, 0, 0, TRUE)]

HybIncOut(s1, s2, k, f1, f2) ==
  LET r1 == IF redisConnected THEN L1IncOut(s1, k, f1)
            ELSE [s |-> s1, op |-> NoOp]
      r2 == IF cassandraConnected THEN L2IncOut(s2, k, f2)
            ELSE [s |-> s2, op |-> NoOp]
  IN  [s1 |-> r1.s, s2 |-> r2.s,
       op |-> Op("hyb.incrementHitCount", k, NoData, 0, 0,
                 AnyTier(r1.op.res, r2.op.res))]

HybExists(s1, s2, k) ==
  \/ redisConnected /\ L1Exists(s1, k)
  \/ cassandraConnected /\ L2Exists(s2, k)

HybStatsItems(s1, s2) ==
  (IF redisConnected THEN L1StatsItems(s1) ELSE 0)
  + (IF cassandraConnected THEN L2StatsItems(s2) ELSE 0)

\* getItemsByHitCount: both tiers' lists are concatenated, merged by key in
\* a Map summing hitCount, sorted ascending and cut to `limit`.
ItemIdx(acc, k) == CHOOSE i \in 1..Len(acc) : acc[i].key = k
RECURSIVE MergeItems(_, _)
MergeItems(acc, items) ==
  IF items = <<>> THEN acc
  ELSE LET x == items[1] IN
       IF \E i \in 1..Len(acc) : acc[i].key = x.key
       THEN MergeItems([acc EXCEPT ![ItemIdx(acc, x.key)].hitCount =
                                      @ + x.hitCount], Tail(items))
       ELSE MergeItems(Append(acc, x), Tail(items))

HybItems(s1, s2, limit, ord1, ord2) ==
  LET all == (IF redisConnected THEN L1Items(s1, limit, ord1) ELSE <<>>)
             \o (IF cassandraConnected THEN L2Items(s2, limit, ord2) ELSE <<>>)
      sorted == SortByHit(MergeItems(<<>>, all))
  IN  SubSeq(sorted, 1, Min(limit, Len(sorted)))

\* ===================================================================
\* CacheCapacityManager, hybrid mode
\* ===================================================================

\* moveRedisItemsToCassandra: for every listed item, read it from L1, write
\* it to L2 with its metadata and without a ttl option and, when that write
\* succeeded, delete it from L1 and count it as moved whatever the delete
\* returned.  F2: the keys whose L2 write fails, D1: the keys whose L1
\* delete fails.
SuccessAlways(w) == TRUE
Success(w) == w.op.res

\* The per-item try / catch of the loops: after an item that failed the
\* loop goes on with the next one.
Abort(items) == <<>>
Continue(items) == Tail(items)

RECURSIVE MoveItems(_, _, _, _, _)
MoveItems(s1, s2, items, F2, D1) ==
  IF items = <<>> THEN [s1 |-> s1, s2 |-> s2, moved |-> {}]
  ELSE LET k == items[1].key
           g == L1GetOut(s1, k, FALSE)
           w == L2SetOut(s2, k, g.op.data, g.op.meta, 0, k \in F2)
       IN  IF ~g.op.res THEN MoveItems(g.s, s2, Continue(items), F2, D1)
           ELSE IF Success(w)
                THEN LET r == MoveItems(L1DeleteOut(g.s, k, k \in D1).s, w.s,
                                        Tail(items), F2, D1)
                     IN  [r EXCEPT !.moved = @ \cup {k}]
                ELSE MoveItems(g.s, w.s, Continue(items), F2, D1)

\* evictLeastUsedItems on the L2 tier; D: the keys whose delete fails.
RECURSIVE EvictL2(_, _, _)
EvictL2(s2, items, D) ==
  IF items = <<>> THEN s2
  ELSE LET d == L2DeleteOut(s2, items[1].key, items[1].key \in D)
       IN  EvictL2(d.s, IF d.op.res THEN Tail(items) ELSE Continue(items), D)

\* manageHybridCapacity: the L1 check and migration, then the L2 check and
\* eviction on the state the migration left.
ManageHybridOut(s1, s2, ord1, ord2, F2, D1) ==
  LET m == IF redisConnected /\ L1OverThreshold(s1)
           THEN MoveItems(s1, s2,
                          L1Items(s1, Ceil20(L1ItemCount(s1)), ord1), F2, D1)
           ELSE [s1 |-> s1, s2 |-> s2, moved |-> {}]
      e == IF cassandraConnected /\ L2OverThreshold(m.s2)
           THEN EvictL2(m.s2, L2Items(m.s2, Ceil10(L2ItemCount(m.s2)), ord2),
                        {})
           ELSE m.s2
  IN  [s1 |-> m.s1, s2 |-> e, moved |-> m.moved]

\* ===================================================================
\* node-cache, as MemoryCache configures it (maxKeys = MAX_ITEMS,
\* deleteOnExpire, useClones = false).  An entry is the stored item
\* (data, size, expiresAt, hitCount) wrapped with its expiry timestamp t;
\* t = 0 means "no expiry".
\* ===================================================================
NcEntry(k, v, exp, hits, t) ==
  [key |-> k, data |-> v, size |-> Len(v), expiresAt |-> exp,
   hitCount |-> hits, t |-> t]
NoEntry == NcEntry("", NoData, 0, 0, 0)

NcHasKey(c, k) == \E i \in 1..Len(c) : c[i].key = k
NcIdx(c, k) == CHOOSE i \in 1..Len(c) : c[i].key = k
NcKeys(c) == [i \in 1..Len(c) |-> c[i].key]

\* _check: an entry is invalid when its ttl is not 0 and is too old.
NcLive(e) == ~(e.t # 0 /\ e.t < now)

\* del(key): removes the key, returns the number of keys removed.
NcDel(c, k) == SelectSeq(c, LAMBDA e : e.key # k)

\* get(key) / has(key) / getTtl(key): a present and live entry is found; a
\* present but expired entry is deleted by _check and reported as absent.
NcGet(c, k) ==
  IF ~NcHasKey(c, k) THEN [c |-> c, found |-> FALSE, e |-> NoEntry]
  ELSE IF ~NcLive(c[NcIdx(c, k)])
       THEN [c |-> NcDel(c, k), found |-> FALSE, e |-> NoEntry]
       ELSE [c |-> c, found |-> TRUE, e |-> c[NcIdx(c, k)]]

\* _wrap: livetime = now + ttl seconds (0 = unlimited).
NcWrap(e, ttl) ==
  [e EXCEPT !.t = IF ttl = 0 THEN 0 ELSE Min(After(now, ttl), Horizon)]

\* set(key, value, ttl): throws ECACHEFULL when the number of keys has
\* reached maxKeys, also when the key is already stored; otherwise stores
\* the wrapped value, an existing key keeping its place in the key order.
NcSet(c, k, e, ttl) ==
  IF Len(c) >= MAX_ITEMS THEN [c |-> c, threw |-> TRUE]
  ELSE IF NcHasKey(c, k)
       THEN [c |-> [c EXCEPT ![NcIdx(c, k)] = NcWrap(e, ttl)], threw |-> FALSE]
       ELSE [c |-> Append(c, NcWrap(e, ttl)), threw |-> FALSE]

\* _checkData: the periodic sweep drops every expired entry.
NcCheckData(c) == SelectSeq(c, NcLive)

RECURSIVE SumSize(_)
SumSize(c) == IF c = <<>> THEN 0 ELSE c[1].size + SumSize(Tail(c))

\* ===================================================================
\* MemoryCache
\* ===================================================================

\* this.cache.getTtl(key) || CACHE.TTL, for a live entry: getTtl returns the
\* expiry timestamp in milliseconds.
MemTtlArg(e) == IF e.t * MsPerTick # 0 THEN e.t * MsPerTick ELSE CACHE_TTL

\* The hit path shared by get and incrementHitCount: the stored item's
\* hitCount is bumped in place, then the item is stored again.
MemBump(c, k, e) ==
  LET e1 == [e EXCEPT !.hitCount = @ + 1]
      c1 == [c EXCEPT ![NcIdx(c, k)] = e1]
      s  == NcSet(c1, k, e1, MemTtlArg(e))
  IN  [c |-> s.c, threw |-> s.threw, e |-> e1]

MemGetOut(k) ==
  LET r == NcGet(mcache, k) IN
  IF ~r.found
  THEN [c |-> r.c, threw |-> FALSE,
        op |-> Op("mem.get", k, NoData, 0, 0, FALSE)]
  ELSE LET b == MemBump(r.c, k, r.e) IN
       IF b.threw
       THEN [c |-> b.c, threw |-> TRUE,
             op |-> Op("mem.get", k, NoData, 0, 0, FALSE)]
       ELSE [c |-> b.c, threw |-> FALSE,
             op |-> Op("mem.get", k, b.e.data, b.e.size, b.e.expiresAt, TRUE)]

\* Second size check of set: the item is refused when it still does not fit.
MemRejectsNever(cur, len) == FALSE
MemRejects(cur, len) == cur + len > MAX_SIZE

MemSetOut(k, v, ttlOpt) ==
  LET len   == Len(v)
      over  == currentCacheSize + len > MAX_SIZE
      m     == IF over THEN Ceil20(Len(mcache)) ELSE 0
      gone  == SubSeq(mcache, 1, m)
      c1    == SubSeq(mcache, m + 1, Len(mcache))
      cur1  == currentCacheSize - SumSize(SelectSeq(gone, NcLive))
      ttl   == EffTtl(ttlOpt)
      exp   == After(now, ttl)
      s     == NcSet(c1, k, NcEntry(k, v, exp, 0, 0), ttl)
      done(ok) == [Op("mem.set", k, v, 0, exp, ok) EXCEPT !.evicted = m]
  IN  IF over /\ MemRejects(cur1, len)
      THEN [c |-> c1, cur |-> cur1, threw |-> FALSE, op |-> done(FALSE)]
      ELSE IF s.threw
           THEN [c |-> c1, cur |-> cur1, threw |-> TRUE, op |-> done(FALSE)]
           ELSE [c |-> s.c, cur |-> cur1 + len, threw |-> FALSE,
                 op |-> done(TRUE)]

MemDeleteOut(k) ==
  LET r == NcGet(mcache, k) IN
  [c   |-> NcDel(r.c, k),
   cur |-> IF r.found THEN currentCacheSize - r.e.size ELSE currentCacheSize,
   op  |-> Op("mem.delete", k, NoData, 0, 0, NcHasKey(r.c, k))]

MemExistsOut(k) ==
  LET r == NcGet(mcache, k) IN
  [c |-> r.c, op |-> Op("mem.exists", k, NoData, 0, 0, r.found)]

MemIncOut(k) ==
  LET r == NcGet(mcache, k) IN
  IF ~r.found
  THEN [c |-> r.c, threw |-> FALSE,
        op |-> Op("mem.incrementHitCount", k, NoData, 0, 0, FALSE)]
  ELSE LET b == MemBump(r.c, k, r.e) IN
       [c |-> b.c, threw |-> b.threw,
        op |-> Op("mem.incrementHitCount", k, NoData, 0, 0, ~b.threw)]

MemItemsOut(limit) ==
  LET head == SubSeq(mcache, 1, Min(limit, Len(mcache)))
      rest == SubSeq(mcache, Min(limit, Len(mcache)) + 1, Len(mcache))
      live == SelectSeq(head, NcLive)
      items == [i \in 1..Len(live) |->
                  [key |-> live[i].key, hitCount |-> live[i].hitCount,
                   size |-> live[i].size]]
  IN  [c |-> live \o rest, list |-> SortByHit(items),
       op |-> Op("mem.getItemsByHitCount", "", NoData, 0, 0, TRUE)]

\* getStats().items and getCapacityInfo()
MemStatsItems == Len(NcKeys(mcache))
MemUsedBytes == currentCacheSize

\* ------------------------------------------------------------- actions
MemGet(k) ==
  /\ NcGet(mcache, k).found => NcGet(mcache, k).e.hitCount < MaxHits
  /\ mcache' = MemGetOut(k).c
  /\ last' = MemGetOut(k).op
  /\ UNCHANGED <<extVars, now, currentCacheSize, tierVars>>

MemSet(k, v, ttlOpt) ==
  /\ mcache' = MemSetOut(k, v, ttlOpt).c
  /\ currentCacheSize' = MemSetOut(k, v, ttlOpt).cur
  /\ last' = MemSetOut(k, v, ttlOpt).op
  /\ UNCHANGED <<extVars, now, tierVars>>

MemDelete(k) ==
  /\ mcache' = MemDeleteOut(k).c
  /\ currentCacheSize' = MemDeleteOut(k).cur
  /\ last' = MemDeleteOut(k).op
  /\ UNCHANGED <<extVars, now, tierVars>>

MemExists(k) ==
  /\ mcache' = MemExistsOut(k).c
  /\ last' = MemExistsOut(k).op
  /\ UNCHANGED <<extVars, now, currentCacheSize, tierVars>>

MemClear ==
  /\ mcache' = <<>>
  /\ currentCacheSize' = 0
  /\ last' = Op("mem.clear", "", NoData, 0, 0, TRUE)
  /\ UNCHANGED <<extVars, now, tierVars>>

MemIncrementHitCount(k) ==
  /\ NcGet(mcache, k).found => NcGet(mcache, k).e.hitCount < MaxHits
  /\ mcache' = MemIncOut(k).c
  /\ last' = MemIncOut(k).op
  /\ UNCHANGED <<extVars, now, currentCacheSize, tierVars>>

MemGetItemsByHitCount(limit) ==
  /\ mcache' = MemItemsOut(limit).c
  /\ last' = MemItemsOut(limit).op
  /\ UNCHANGED <<extVars, now, currentCacheSize, tierVars>>

\* The checkperiod timer of node-cache.
MemSweep ==
  /\ mcache' = NcCheckData(mcache)
  /\ mcache' # mcache
  /\ UNCHANGED <<extVars, now, currentCacheSize, last, tierVars>>

\* ------------------------------------------------- CDN route: GET /*
\* The repository holds two versions of the handler: the one app.ts mounts
\* (cdn-routes.ts, which tees every response into the cache) and the one
\* with the M3U8 branch (part_002, which tees when shouldCache). The keys
\* drawn here are non-M3U8 objects, so both take the streaming path.
S_MAX == 3                \* 5 * 1024 * 1024 bytes, scaled
MaxChunk == 2             \* longest chunk the origin stream delivers
MaxChunks == 3            \* most chunks in one origin body
MaxBody == 5              \* most bytes in one origin body

\* req.cdnPath, the part of the URL after the mount point, as its
\* '/'-separated segments: the empty string is one empty segment.
EmptyPath == <<"">>
Paths == {EmptyPath, <<"a">>}
CdnSegments == {"cdn"}    \* the segments that begin with "cdn"
WithExtension == {"a.ts"} \* the segments that end in .<alphanumerics>
BUCKET_NAME == "bucket"   \* S3.BUCKET_NAME, the default bucket

\* req.cdnPath?.includes('/cdn') ? req.cdnPath : 'nami/' + req.cdnPath || ''
\* (+ binds tighter than ||).
IncludesCdn(p) == \E i \in 2..Len(p) : p[i] \in CdnSegments
GetCdnPath(p) ==
  LET prefixed == <<"nami">> \o p IN
  IF IncludesCdn(p) THEN p
  ELSE IF prefixed # EmptyPath THEN prefixed ELSE EmptyPath
\* req.cdnPath || '' of the HEAD route
HeadCdnPath(p) == p
\* if (!cdnPath)
PathMissing(cp) == cp = EmptyPath

\* S3Service.parseObjectPath: throws when the path has no non-empty segment.
parseObjectPath(cp) ==
  LET parts == SelectSeq(cp, LAMBDA x : x # "") IN
  IF Len(parts) = 0 THEN [ok |-> FALSE, bucket |-> "", key |-> <<>>]
  ELSE IF Len(parts) = 1
       THEN [ok |-> TRUE, bucket |-> BUCKET_NAME, key |-> parts]
  ELSE IF parts[1] \notin WithExtension
       THEN [ok |-> TRUE, bucket |-> parts[1], key |-> Tail(parts)]
       ELSE [ok |-> TRUE, bucket |-> BUCKET_NAME, key |-> parts]

\* `${bucket}/${key}` of the objects the paths name
UrlOf(po) == <<po.bucket>> \o po.key
Urls == {UrlOf(parseObjectPath(GetCdnPath(p))) : p \in Paths}
NoRange == "undefined"    \* req.get('Range') when the header is absent
Ranges == {NoRange, "bytes=0-0"}
Routes == {"cdn-routes.ts", "part_002"}

\* `${url}|${JSON.stringify(relevantHeaders)}`: the range is among the
\* relevant headers when it is truthy.
generateCacheKey(url, range) ==
  <<url, IF range = NoRange THEN <<>> ELSE <<range>> >>
CacheKeys == {generateCacheKey(u, r) : u \in Urls, r \in Ranges}

\* An origin body is a sequence of chunks; its bytes are numbered in order,
\* so a partial, reordered or truncated copy differs from the whole.
RECURSIVE Cut(_, _)
Cut(sizes, from) ==
  IF sizes = <<>> THEN <<>>
  ELSE <<[i \in 1..sizes[1] |-> from + i]>>
         \o Cut(Tail(sizes), from + sizes[1])
RECURSIVE Total(_)
Total(sizes) == IF sizes = <<>> THEN 0 ELSE sizes[1] + Total(Tail(sizes))
Bodies ==
  {Cut(sz, 0) :
     sz \in {f \in UNION {[1..n -> 1..MaxChunk] : n \in 0..MaxChunks} :
               Total(f) <= MaxBody}}

\* Buffer.concat
RECURSIVE Concat(_)
Concat(chunks) ==
  IF chunks = <<>> THEN <<>> ELSE chunks[1] \o Concat(Tail(chunks))
ByteLen(chunks) == Len(Concat(chunks))

\* s3Response.contentLength: the length of the body, 0 (also a response
\* without the header), or just under the limit whatever the body holds.
AdvLens(body) == {ByteLen(body), 0, S_MAX - 1}

CdnItem(data, size) == [present |-> TRUE, data |-> data, size |-> size]
NoItem == [present |-> FALSE, data |-> <<>>, size |-> 0]
NoFill == [called |-> FALSE, data |-> <<>>]

NoReq ==
  [phase |-> "idle", route |-> "", method |-> "", path |-> <<>>,
   url |-> <<>>, range |-> NoRange,
   cacheKey |-> <<>>, origin |-> <<>>, pending |-> <<>>, advertised |-> 0,
   shouldCache |-> FALSE, cacheBuffer |-> <<>>, totalSize |-> 0,
   discarded |-> FALSE, sent |-> <<>>, status |-> 0, xcache |-> "",
   resLength |-> 0, item |-> NoItem, cacheReads |-> 0, originCalls |-> 0,
   originHeads |-> 0,
   fill |-> NoFill, outcome |-> ""]

\* The tee is installed: always in cdn-routes.ts, when
\* !range && contentLength && contentLength < 5 MiB in part_002.
ShouldCache(route, range, adv) ==
  IF route = "part_002"
  THEN range = NoRange /\ adv # 0 /\ adv < S_MAX
  ELSE TRUE

\* The cache is consulted: if (!range).
LookupAlways(range) == TRUE
Lookup(range) == range = NoRange

\* From the start of the handler to the first await of the pipeline: cache
\* lookup, HIT response, or getObject and the response headers. cf: the cache
\* read throws (getCacheItem returns null); found: the origin has a body.
CdnStartOut(cache, route, url, range, found, body, adv, cf) ==
  LET ck == generateCacheKey(url, range)
      item == IF Lookup(range) /\ ~cf THEN cache[ck] ELSE NoItem
      r0 == [NoReq EXCEPT !.route = route, !.url = url, !.range = range,
                          !.cacheKey = ck, !.item = item,
                          !.cacheReads = IF Lookup(range) THEN 1 ELSE 0]
  IN  IF item.present
      THEN [r0 EXCEPT !.phase = "done", !.status = 200, !.xcache = "HIT",
                      !.sent = item.data, !.resLength = item.size,
                      !.outcome = "hit"]
      ELSE IF ~found
      THEN [r0 EXCEPT !.phase = "done", !.status = 404, !.originCalls = 1,
                      !.outcome = "notfound"]
      ELSE [r0 EXCEPT !.phase = "streaming", !.originCalls = 1,
                      !.status = IF range # NoRange THEN 206 ELSE 200,
                      !.xcache = "MISS", !.resLength = adv,
                      !.origin = body, !.pending = body, !.advertised = adv,
                      !.shouldCache = ShouldCache(route, range, adv)]

\* The GET handler from its first line: the path test, parseObjectPath
\* (whose throw the catch answers with 500), then the lookup and the origin.
CdnGetOut(cache, route, path, range, found, body, adv, cf) ==
  LET cp == GetCdnPath(path)
      po == parseObjectPath(cp)
      r0 == [NoReq EXCEPT !.route = route, !.method = "GET", !.path = path,
                          !.phase = "done"]
  IN  IF PathMissing(cp) THEN [r0 EXCEPT !.status = 400, !.outcome = "400"]
      ELSE IF ~po.ok THEN [r0 EXCEPT !.status = 500, !.outcome = "error"]
      ELSE [CdnStartOut(cache, route, UrlOf(po), range, found, body, adv, cf)
              EXCEPT !.method = "GET", !.path = path]

\* The HEAD handler: the path test, parseObjectPath, headObject; no cache.
CdnHeadOut(route, path, found) ==
  LET cp == HeadCdnPath(path)
      po == parseObjectPath(cp)
      r0 == [NoReq EXCEPT !.route = route, !.method = "HEAD", !.path = path,
                          !.phase = "done"]
  IN  IF PathMissing(cp) THEN [r0 EXCEPT !.status = 400, !.outcome = "400"]
      ELSE IF ~po.ok THEN [r0 EXCEPT !.status = 500, !.outcome = "error"]
      ELSE [r0 EXCEPT !.url = UrlOf(po), !.originHeads = 1,
                      !.status = IF found THEN 200 ELSE 404,
                      !.outcome = IF found THEN "head" ELSE "notfound"]

\* stream.on('data') and the pipe: the chunk joins the tee buffer, which
\* part_002 empties once it has grown past the limit, and goes to the client.
CdnDataOut(r) ==
  LET chunk == r.pending[1]
      size == r.totalSize + Len(chunk)
      over == r.route = "part_002" /\ size > S_MAX
  IN  [r EXCEPT !.pending = Tail(r.pending),
                !.sent = r.sent \o chunk,
                !.cacheBuffer = IF ~r.shouldCache THEN @
                                ELSE IF over THEN <<>>
                                ELSE Append(@, chunk),
                !.totalSize = IF ~r.shouldCache THEN @
                              ELSE IF over THEN 0 ELSE size,
                !.discarded = @ \/ (r.shouldCache /\ over)]

\* The end handler's test before the cache-fill.
FillAtEnd(r) ==
  /\ r.shouldCache
  /\ Len(r.cacheBuffer) > 0
  /\ r.totalSize > 0
  /\ (r.route = "part_002" => r.totalSize < S_MAX)

\* stream.on('end'): the cache-fill from the tee buffer; sf: the write fails.
CdnEndOut(cache, r, sf) ==
  LET full == Concat(r.cacheBuffer)
      fills == FillAtEnd(r)
  IN  [req |-> [r EXCEPT !.phase = "done", !.outcome = "end",
                         !.fill = IF fills
                                  THEN [called |-> TRUE, data |-> full]
                                  ELSE NoFill],
       cache |-> IF fills /\ ~sf
                 THEN [cache EXCEPT ![r.cacheKey] = CdnItem(full, Len(full))]
                 ELSE cache]

\* stream.on('error') and the client's disconnect: pipeline destroys the
\* origin stream, which then emits no 'end'; the 500 goes out only while
\* the headers are unsent.
CdnAbortOut(r, why) ==
  [r EXCEPT !.phase = "done", !.outcome = why,
            !.status = IF why = "error" /\ r.sent = <<>> THEN 500 ELSE @]

\* ------------------------------------------------------- CacheManager
\* mode and initialized are the fields of the class, backend is the class of
\* this.backend; call and ret are the last method called and how it ended,
\* failed tells that the initialize() of the requested backend threw in it.
Modes == {"memory", "redis", "cassandra", "redis-cassandra"}
NoMgr ==
  [mode |-> "", backend |-> "", initialized |-> FALSE, call |-> "",
   ret |-> "", failed |-> FALSE, arg |-> ""]

\* ------------------------------------------------- time and connectivity
\* A tick passes; the stores drop the keys and rows whose native ttl is up.
StoreExpire(s, none, t) ==
  [k \in Keys |-> IF s[k].present /\ s[k].ttlAt # 0 /\ s[k].ttlAt <= t
                  THEN none ELSE s[k]]
Tick ==
  /\ now < MaxTime
  /\ now' = now + 1
  /\ l1' = StoreExpire(l1, NoHash, now + 1)
  /\ l2' = StoreExpire(l2, NoRow, now + 1)
  /\ UNCHANGED <<extVars, memVars, l1conn, l2conn, redisConnected,
                 cassandraConnected, last>>

Init ==
  /\ now = 0
  /\ mcache = <<>>
  /\ currentCacheSize = 0
  /\ l1 = [k \in Keys |-> NoHash]
  /\ l2 = [k \in Keys |-> NoRow]
  /\ l1conn = FALSE
  /\ l2conn = FALSE
  /\ redisConnected = FALSE
  /\ cassandraConnected = FALSE
  /\ last = NoOp
  /\ cdnCache = [ck \in CacheKeys |-> NoItem]
  /\ req = NoReq
  /\ mgr = NoMgr
  /\ errors = NoErrors
  /\ faults = NoErrors
  /\ sets = [c \in Callers |-> NoSet]
  /\ cap = NewCap

NextMem ==
  \/ \E k \in Keys : MemGet(k)
  \/ \E k \in Keys, v \in Payloads, t \in TtlOpts : MemSet(k, v, t)
  \/ \E k \in Keys : MemDelete(k)
  \/ \E k \in Keys : MemExists(k)
  \/ MemClear
  \/ \E k \in Keys : MemIncrementHitCount(k)
  \/ \E n \in 0..MaxLimit : MemGetItemsByHitCount(n)
  \/ MemSweep
  \/ Tick

SpecMem == Init /\ [][NextMem]_vars

HitsBounded(s) == \A k \in Keys : s[k].hitCount <= MaxHits

\* The metadata a set passes along with a payload: the empty string with the
\* empty payload, none with the short one, a proper value with the long one.
MetaOf(v) == IF Len(v) = 0 THEN "" ELSE IF Len(v) = 1 THEN "undefined" ELSE "v"

\* ioredis 'error' / 'close' and 'connect' events
L1Down ==
  /\ l1conn
  /\ l1conn' = FALSE
  /\ UNCHANGED <<extVars, now, memVars, l1, l2, l2conn, redisConnected,
                 cassandraConnected, last>>

L1Up ==
  /\ ~l1conn
  /\ last.op # "none"
  /\ l1conn' = TRUE
  /\ UNCHANGED <<extVars, now, memVars, l1, l2, l2conn, redisConnected,
                 cassandraConnected, last>>

\* ------------------------------------------------- RedisCache on its own
L1Initialize(ok) ==
  /\ last = NoOp
  /\ l1conn' = ok
  /\ last' = Op("l1.initialize", "", NoData, 0, 0, ok)
  /\ UNCHANGED <<extVars, now, memVars, l1, l2, l2conn, redisConnected,
                 cassandraConnected>>

L1Step(out) ==
  /\ last.op # "none"
  /\ HitsBounded(out.s)
  /\ l1' = out.s
  /\ last' = out.op
  /\ UNCHANGED <<extVars, now, memVars, l2, l1conn, l2conn, redisConnected,
                 cassandraConnected>>

L1Get(k, f) == L1Step(L1GetOut(l1, k, f))
L1Set(k, v, m, t, f) == L1Step(L1SetOut(l1, k, v, m, t, f))
L1Delete(k, f) == L1Step(L1DeleteOut(l1, k, f))
L1Clear(f) == L1Step(L1ClearOut(l1, f))
L1IncrementHitCount(k, f) == L1Step(L1IncOut(l1, k, f))

NextL1 ==
  \/ \E ok \in BOOLEAN : L1Initialize(ok)
  \/ \E k \in Keys, f \in BOOLEAN : L1Get(k, f)
  \/ \E k \in Keys, v \in Payloads, t \in TtlOpts, f \in BOOLEAN :
        L1Set(k, v, MetaOf(v), t, f)
  \/ \E k \in Keys, f \in BOOLEAN : L1Delete(k, f)
  \/ \E f \in BOOLEAN : L1Clear(f)
  \/ \E k \in Keys, f \in BOOLEAN : L1IncrementHitCount(k, f)
  \/ L1Down
  \/ L1Up
  \/ Tick

SpecL1 == Init /\ [][NextL1]_vars

\* ------------------------------------------------------------ HybridCache
\* initialize: both tiers connect in parallel, r and c tell which succeed.
HybInitialize(r, c) ==
  /\ last = NoOp
  /\ l1conn' = r
  /\ l2conn' = c
  /\ redisConnected' = r
  /\ cassandraConnected' = c
  /\ last' = Op("hyb.initialize", "", NoData, 0, 0, AnyTier(r, c))
  /\ UNCHANGED <<extVars, now, memVars, l1, l2>>

HybStep(out) ==
  /\ last.op # "none"
  /\ HitsBounded(out.s1)
  /\ l1' = out.s1
  /\ l2' = out.s2
  /\ last' = out.op
  /\ UNCHANGED <<extVars, now, memVars, l1conn, l2conn, redisConnected,
                 cassandraConnected>>

HybGet(k, f1, f2, fp) == HybStep(HybGetOut(l1, l2, k, f1, f2, fp))
HybSet(k, v, m, t, f1, f2) ==
  HybStep(HybSetOut(l1, l2, k, v, m, t, f1, f2))
HybDelete(k, f1, f2) == HybStep(HybDeleteOut(l1, l2, k, f1, f2))
HybClear(f1, f2) == HybStep(HybClearOut(l1, l2, f1, f2))

HybIncrementHitCount(k, f1, f2) ==
  /\ HitsBounded(l2)
  /\ \A j \in Keys : l2[j].hitCount < MaxHits
  /\ HybStep(HybIncOut(l1, l2, k, f1, f2))

\* close: the tiers whose flag is set are closed, both flags are cleared.
HybClose ==
  /\ last.op # "none"
  /\ l1conn' = IF redisConnected THEN FALSE ELSE l1conn
  /\ l2conn' = IF cassandraConnected THEN FALSE ELSE l2conn
  /\ redisConnected' = FALSE
  /\ cassandraConnected' = FALSE
  /\ last' = Op("hyb.close", "", NoData, 0, 0, TRUE)
  /\ UNCHANGED <<extVars, now, memVars, l1, l2>>

\* One cycle of the capacity manager (periodic tick or forceCapacityCheck).
CapacityTick(ord1, ord2, F2, D1) ==
  LET out == ManageHybridOut(l1, l2, ord1, ord2, F2, D1) IN
  HybStep([s1 |-> out.s1, s2 |-> out.s2,
           op |-> Op("capacity.tick", "", NoData, 0, 0, TRUE)])

\* The fault inputs of a migration: no command fails, the L2 writes fail,
\* or the L1 deletes fail.
MoveFaults == {<<{}, {}>>, <<Keys, {}>>, <<{}, Keys>>}

\* The fault inputs of a Hybrid operation: at most one tier fails at a time.
Faults == {<<FALSE, FALSE>>, <<TRUE, FALSE>>, <<FALSE, TRUE>>}

NextHyb ==
  \/ \E r, c \in BOOLEAN : HybInitialize(r, c)
  \/ \E k \in Keys, f \in Faults, fp \in BOOLEAN : HybGet(k, f[1], f[2], fp)
  \/ \E k \in Keys, v \in Payloads \ {<<>>}, t \in TtlOpts, f \in Faults :
        HybSet(k, v, MetaOf(v), t, f[1], f[2])
  \/ \E k \in Keys, f \in Faults : HybDelete(k, f[1], f[2])
  \/ \E f \in Faults : HybClear(f[1], f[2])
  \/ \E ord1, ord2 \in Orders, F \in MoveFaults :
        CapacityTick(ord1, ord2, F[1], F[2])
  \/ Tick

SpecHyb == Init /\ [][NextHyb]_vars

\* HybridCache on one key, with every combination of tier faults, the
\* hit-count increment and close.
TierFaults == BOOLEAN \X BOOLEAN
NextTier ==
  \/ \E r, c \in BOOLEAN : HybInitialize(r, c)
  \/ \E k \in MgrKeys, f \in TierFaults, fp \in BOOLEAN :
        HybGet(k, f[1], f[2], fp)
  \/ \E k \in MgrKeys, v \in MgrPayloads, t \in TtlOpts, f \in TierFaults :
        HybSet(k, v, MetaOf(v), t, f[1], f[2])
  \/ \E k \in MgrKeys, f \in TierFaults : HybDelete(k, f[1], f[2])
  \/ \E f \in TierFaults : HybClear(f[1], f[2])
  \/ \E k \in MgrKeys, f \in TierFaults :
        HybIncrementHitCount(k, f[1], f[2])
  \/ HybClose
  \/ Tick

SpecTier == Init /\ [][NextTier]_vars

\* ===================================================================
\* CacheCapacityManager: monitoring, thresholds, and the periodic cycle in
\* hybrid mode taken one loop iteration at a time.
\* ===================================================================
startMonitoring(c) ==
  IF c.isRunning THEN c
  ELSE [c EXCEPT !.isRunning = TRUE, !.intervalId = TRUE]

\* clearInterval stops the timer; the flag is cleared; a cycle that is under
\* way is not told.
stopMonitoring(c) ==
  [c EXCEPT !.intervalId = FALSE, !.isRunning = FALSE,
            !.stopped = c.active]

\* An argument of updateThresholds: undefined, or a number.
Undefined == [given |-> FALSE, value |-> 0]
Num(n) == [given |-> TRUE, value |-> n]
ThresholdArgs == {Undefined, Num(-1), Num(0), Num(50), Num(100)}

InRangeInclusive(x) == x >= 0 /\ x <= 100
InRange(x) == x > 0 /\ x < 100

updateThresholds(c, r, t) ==
  [c EXCEPT !.redisThreshold =
              IF r.given /\ InRange(r.value) THEN r.value ELSE @,
            !.cassandraThreshold =
              IF t.given /\ InRange(t.value) THEN t.value ELSE @]

CapOnly(c) ==
  /\ cap' = c
  /\ UNCHANGED <<now, memVars, tierVars, last, cdnCache, req, mgr, errors,
                 faults, sets>>

StartMonitoring == CapOnly(startMonitoring(cap))
StopMonitoring == CapOnly(stopMonitoring(cap))
UpdateThresholds(r, t) == CapOnly(updateThresholds(cap, r, t))

\* The timer fires: getCapacityInfo and, over the threshold, the list of
\* the items to move.
TimerTick(ord1) ==
  /\ cap.intervalId
  /\ ~cap.active
  /\ last.op # "none"
  /\ CapOnly([cap EXCEPT
       !.active = TRUE, !.stopped = FALSE, !.late = 0,
       !.todo = IF redisConnected /\ L1OverThreshold(l1)
                THEN L1Items(l1, Ceil20(L1ItemCount(l1)), ord1) ELSE <<>>])

\* One iteration of the loop of moveRedisItemsToCassandra: get, then the
\* L2 set and, when it returned true, the L1 delete.
TickMove(F2, D1) ==
  LET item == <<cap.todo[1]>>
      k == cap.todo[1].key
      m == MoveItems(l1, l2, item, F2, D1)
      got == L1GetOut(l1, k, FALSE).op.res
      issued == IF ~got THEN 0 ELSE IF k \in m.moved THEN 2 ELSE 1
  IN  /\ cap.active
      /\ cap.todo # <<>>
      /\ HitsBounded(m.s1)
      /\ l1' = m.s1
      /\ l2' = m.s2
      /\ cap' = [cap EXCEPT !.todo = Tail(@),
                            !.late = IF cap.stopped THEN @ + issued ELSE @]
      /\ UNCHANGED <<now, memVars, l1conn, l2conn, redisConnected,
                     cassandraConnected, last, cdnCache, req, mgr, errors,
                     faults, sets>>

\* The loop is through: the L2 check and eviction, and the cycle ends.
TickEnd(ord2) ==
  LET over == cassandraConnected /\ L2OverThreshold(l2)
      items == IF over THEN L2Items(l2, Ceil10(L2ItemCount(l2)), ord2)
               ELSE <<>>
  IN  /\ cap.active
      /\ cap.todo = <<>>
      /\ l2' = EvictL2(l2, items, {})
      /\ cap' = [cap EXCEPT !.active = FALSE,
                            !.late = IF cap.stopped THEN @ + Len(items) ELSE @]
      /\ last' = Op("capacity.tick", "", NoData, 0, 0, TRUE)
      /\ UNCHANGED <<now, memVars, l1, l1conn, l2conn, redisConnected,
                     cassandraConnected, cdnCache, req, mgr, errors, faults,
                     sets>>

NextCap ==
  \/ \E r, c \in BOOLEAN : HybInitialize(r, c)
  \/ \E k \in Keys, v \in {Blob(1), Blob(MaxLen)} :
        HybSet(k, v, MetaOf(v), 0, FALSE, FALSE)
  \/ StartMonitoring
  \/ StopMonitoring
  \/ \E r, t \in ThresholdArgs : UpdateThresholds(r, t)
  \/ \E ord1 \in Orders : TimerTick(ord1)
  \/ \E F \in MoveFaults : TickMove(F[1], F[2])
  \/ \E ord2 \in Orders : TickEnd(ord2)

SpecCap == Init /\ [][NextCap]_vars

\* ------------------------------------------- capacity cycles, await by await
\* The callback of setInterval calls checkAndManageCapacity every time the
\* timer fires; the call runs up to its first await and then to the next
\* one whenever the event loop resumes it.
Running(c) == cap.cycles[c].active

\* The timer fires: the callback starts a cycle, which reads the capacity
\* of L1 and, over the threshold, lists the items to move.
TimerFires(c, ord1) ==
  /\ cap.intervalId
  /\ ~Running(c)
  /\ last.op # "none"
  /\ CapOnly([cap EXCEPT !.cycles[c] =
       [NoCycle EXCEPT
          !.active = TRUE,
          !.todo = IF redisConnected /\ L1OverThreshold(l1)
                   THEN L1Items(l1, Ceil20(L1ItemCount(l1)), ord1)
                   ELSE <<>>]])

\* The loop of moveRedisItemsToCassandra reads the next item from L1; a
\* miss goes on with the following item.
MoveRead(c) ==
  LET k == cap.cycles[c].todo[1].key
      g == L1GetOut(l1, k, FALSE)
  IN  /\ Running(c)
      /\ cap.cycles[c].todo # <<>>
      /\ cap.cycles[c].held = NoOp
      /\ HitsBounded(g.s)
      /\ l1' = g.s
      /\ cap' = [cap EXCEPT !.cycles[c] =
                   IF g.op.res THEN [@ EXCEPT !.held = g.op]
                   ELSE [@ EXCEPT !.todo = Continue(@)]]
      /\ UNCHANGED <<now, memVars, l2, l1conn, l2conn, redisConnected,
                     cassandraConnected, last, cdnCache, req, mgr, errors,
                     faults, sets>>

\* The item that was read is written to L2 and, when the write returned
\* true, deleted from L1.
MoveWrite(c, F2, D1) ==
  LET h == cap.cycles[c].held
      w == L2SetOut(l2, h.key, h.data, h.meta, 0, h.key \in F2)
  IN  /\ Running(c)
      /\ h # NoOp
      /\ l2' = w.s
      /\ l1' = IF Success(w) THEN L1DeleteOut(l1, h.key, h.key \in D1).s
               ELSE l1
      /\ cap' = [cap EXCEPT !.cycles[c] =
                   [@ EXCEPT !.todo = Tail(@), !.held = NoOp,
                             !.newer = NoData]]
      /\ UNCHANGED <<now, memVars, l1conn, l2conn, redisConnected,
                     cassandraConnected, last, cdnCache, req, mgr, errors,
                     faults, sets>>

\* The loop is through: the L2 check and eviction, and the call returns.
CycleEnd(c, ord2) ==
  LET over == cassandraConnected /\ L2OverThreshold(l2)
      items == IF over THEN L2Items(l2, Ceil10(L2ItemCount(l2)), ord2)
               ELSE <<>>
  IN  /\ Running(c)
      /\ cap.cycles[c].todo = <<>>
      /\ l2' = EvictL2(l2, items, {})
      /\ cap' = [cap EXCEPT !.cycles[c] = NoCycle]
      /\ last' = Op("capacity.tick", "", NoData, 0, 0, TRUE)
      /\ UNCHANGED <<now, memVars, l1, l1conn, l2conn, redisConnected,
                     cassandraConnected, cdnCache, req, mgr, errors, faults,
                     sets>>

\* HybridCache.set of a request, between two steps of the cycles.
SetDuring(k, v) ==
  LET out == HybSetOut(l1, l2, k, v, MetaOf(v), 0, FALSE, FALSE) IN
  /\ last.op # "none"
  /\ l1' = out.s1
  /\ l2' = out.s2
  /\ last' = out.op
  /\ cap' = [cap EXCEPT !.cycles =
               [c \in Cycles |->
                  IF @[c].held # NoOp /\ @[c].held.key = k
                  THEN [@[c] EXCEPT !.newer = v] ELSE @[c]]]
  /\ UNCHANGED <<now, memVars, l1conn, l2conn, redisConnected,
                 cassandraConnected, cdnCache, req, mgr, errors, faults,
                 sets>>

NextCycle ==
  \/ \E r, c \in BOOLEAN : HybInitialize(r, c)
  \/ \E k \in Keys, v \in TickPayloads : SetDuring(k, v)
  \/ \E c \in Cycles, ord1 \in Orders : TimerFires(c, ord1)
  \/ \E c \in Cycles : MoveRead(c)
  \/ \E c \in Cycles, F \in MoveFaults : MoveWrite(c, F[1], F[2])
  \/ \E c \in Cycles, ord2 \in Orders : CycleEnd(c, ord2)

SpecCycle == Init /\ [][NextCycle]_vars

\* ===================================================================
\* HybridCache.set step by step: the call issues one write per connected
\* tier, the stores apply the writes of different calls in whatever order
\* they arrive, and the call returns when its writes have settled.
\* ===================================================================
RaceValues == {Blob(1), Blob(2)}

SetBegin(c, k, v) ==
  /\ last.op # "none"
  /\ sets[c].phase # "writing"
  /\ sets' = [sets EXCEPT ![c] =
                [phase |-> "writing", key |-> k, value |-> v,
                 todo |-> {t \in {"l1", "l2"} :
                             \/ t = "l1" /\ redisConnected
                             \/ t = "l2" /\ cassandraConnected},
                 ok |-> FALSE, item |-> NoOp]]
  /\ UNCHANGED <<now, memVars, tierVars, last, cdnCache, req, mgr, errors,
                 faults, cap>>

SetTierWrite(c, t) ==
  LET w == sets[c]
      o == IF t = "l1"
           THEN L1SetOut(l1, w.key, w.value, MetaOf(w.value), 0, FALSE)
           ELSE L2SetOut(l2, w.key, w.value, MetaOf(w.value), 0, FALSE)
  IN  /\ w.phase = "writing"
      /\ t \in w.todo
      /\ l1' = IF t = "l1" THEN o.s ELSE l1
      /\ l2' = IF t = "l2" THEN o.s ELSE l2
      /\ sets' = [sets EXCEPT ![c].todo = @ \ {t},
                              ![c].ok = AnyTier(@, o.op.res)]
      /\ UNCHANGED <<now, memVars, l1conn, l2conn, redisConnected,
                     cassandraConnected, last, cdnCache, req, mgr, errors,
                     faults, cap>>

SetEnd(c) ==
  LET w == sets[c] IN
  /\ w.phase = "writing"
  /\ w.todo = {}
  /\ sets' = [sets EXCEPT ![c].phase = "done"]
  /\ last' = WithMeta(Op("hyb.set", w.key, w.value, 0, After(now, EffTtl(0)),
                         w.ok), MetaOf(w.value))
  /\ UNCHANGED <<now, memVars, tierVars, cdnCache, req, mgr, errors, faults,
                 cap>>

NextRace ==
  \/ \E r, c \in BOOLEAN : HybInitialize(r, c)
  \/ \E c \in Callers, k \in Keys, v \in RaceValues : SetBegin(c, k, v)
  \/ \E c \in Callers, t \in {"l1", "l2"} : SetTierWrite(c, t)
  \/ \E c \in Callers : SetEnd(c)

SpecRace == Init /\ [][NextRace]_vars

\* ===================================================================
\* HybridCache.get, delete and clear step by step.  The commands of the
\* one Redis connection take effect in the order they were issued, so an
\* L1 command is applied when it is issued; a Cassandra request takes
\* effect at some point before its answer.
\* get: the L1 miss and the L2 answer, then the continuation that issues
\* the promotion and returns.  delete / clear: both tier calls are issued,
\* then the L2 statement takes effect and Promise.allSettled resolves.
\* ===================================================================
InFlight(c) == sets[c].phase \notin {"idle", "done"}
Call2(phase, k, todo, ok, item) ==
  [phase |-> phase, key |-> k, value |-> NoData, todo |-> todo, ok |-> ok,
   item |-> item]

GetRead(c, k) ==
  LET miss == Op("hyb.get", k, NoData, 0, 0, FALSE)
      r1 == IF redisConnected THEN L1GetOut(l1, k, FALSE)
            ELSE [s |-> l1, op |-> miss, hits |-> 0]
      r2 == L2GetOut(l2, k, FALSE)
  IN  /\ last.op # "none"
      /\ ~InFlight(c)
      /\ ~r1.op.res
      /\ cassandraConnected /\ r2.op.res
      /\ l1' = r1.s
      /\ l2' = r2.s
      /\ sets' = [sets EXCEPT ![c] = Call2("get", k, {}, TRUE, r2.op)]
      /\ UNCHANGED <<now, memVars, l1conn, l2conn, redisConnected,
                     cassandraConnected, last, cdnCache, req, mgr, errors,
                     faults, cap>>

GetPromote(c, fp) ==
  LET w == sets[c] IN
  /\ w.phase = "get"
  /\ l1' = Promote(l1, w.key, w.item, fp)
  /\ last' = AsHyb(w.item, "hyb.get")
  /\ sets' = [sets EXCEPT ![c].phase = "done"]
  /\ UNCHANGED <<now, memVars, l2, l1conn, l2conn, redisConnected,
                 cassandraConnected, cdnCache, req, mgr, errors, faults, cap>>

DeleteBegin(c, k) ==
  LET r1 == IF redisConnected THEN L1DeleteOut(l1, k, FALSE)
            ELSE [s |-> l1, op |-> NoOp]
  IN  /\ last.op # "none"
      /\ ~InFlight(c)
      /\ l1' = r1.s
      /\ sets' = [sets EXCEPT ![c] =
                    Call2("delete", k,
                          IF cassandraConnected THEN {"l2"} ELSE {},
                          r1.op.res, NoOp)]
      /\ UNCHANGED <<now, memVars, l2, l1conn, l2conn, redisConnected,
                     cassandraConnected, last, cdnCache, req, mgr, errors,
                     faults, cap>>

DeleteEnd(c) ==
  LET w == sets[c]
      r2 == IF "l2" \in w.todo THEN L2DeleteOut(l2, w.key, FALSE)
            ELSE [s |-> l2, op |-> NoOp]
  IN  /\ w.phase = "delete"
      /\ l2' = r2.s
      /\ last' = Op("hyb.delete", w.key, NoData, 0, 0,
                    AnyTier(w.ok, r2.op.res))
      /\ sets' = [sets EXCEPT ![c].phase = "done", ![c].todo = {}]
      /\ UNCHANGED <<now, memVars, l1, l1conn, l2conn, redisConnected,
                     cassandraConnected, cdnCache, req, mgr, errors, faults,
                     cap>>

ClearBegin(c) ==
  LET r1 == IF redisConnected THEN L1ClearOut(l1, FALSE)
            ELSE [s |-> l1, op |-> NoOp]
  IN  /\ last.op # "none"
      /\ ~InFlight(c)
      /\ l1' = r1.s
      /\ sets' = [sets EXCEPT ![c] =
                    Call2("clear", "",
                          IF cassandraConnected THEN {"l2"} ELSE {},
                          r1.op.res, NoOp)]
      /\ UNCHANGED <<now, memVars, l2, l1conn, l2conn, redisConnected,
                     cassandraConnected, last, cdnCache, req, mgr, errors,
                     faults, cap>>

ClearEnd(c) ==
  LET w == sets[c]
      r2 == IF "l2" \in w.todo THEN L2ClearOut(l2, FALSE)
            ELSE [s |-> l2, op |-> NoOp]
  IN  /\ w.phase = "clear"
      /\ l2' = r2.s
      /\ last' = Op("hyb.clear", "", NoData, 0, 0, AnyTier(w.ok, r2.op.res))
      /\ sets' = [sets EXCEPT ![c].phase = "done", ![c].todo = {}]
      /\ UNCHANGED <<now, memVars, l1, l1conn, l2conn, redisConnected,
                     cassandraConnected, cdnCache, req, mgr, errors, faults,
                     cap>>

\* A set, and a get that is served without a promotion under way, are
\* issued while no delete or clear is under way.
Quiet == \A c \in Callers : sets[c].phase \notin {"delete", "clear"}
QuietSet(k, v, f1, f2) == Quiet /\ HybSet(k, v, MetaOf(v), 0, f1, f2)
QuietGet(k) == Quiet /\ HybGet(k, FALSE, FALSE, FALSE)

\* Caller 1 reads, caller 2 deletes and clears.
NextPromo ==
  \/ \E r, c \in BOOLEAN : HybInitialize(r, c)
  \/ \E k \in Keys, v \in TickPayloads, f \in Faults :
        QuietSet(k, v, f[1], f[2])
  \/ \E k \in Keys : QuietGet(k)
  \/ \E k \in Keys : GetRead(1, k)
  \/ \E fp \in BOOLEAN : GetPromote(1, fp)
  \/ \E k \in Keys : DeleteBegin(2, k)
  \/ DeleteEnd(2)
  \/ ClearBegin(2)
  \/ ClearEnd(2)
  \/ HybClose

SpecPromo == Init /\ [][NextPromo]_vars

\* ===================================================================
\* The six data operations of the four backends with their errors
\* counters.  A command of a remote store fails when it was issued (the
\* backend is connected) and the fault flag is set; node-cache fails when
\* set throws.
\* ===================================================================
Backends == {"MemoryCache", "RedisCache", "CassandraCache", "HybridCache"}
DataOps == {"get", "set", "delete", "exists", "clear", "incrementHitCount"}
Bit(p) == IF p THEN 1 ELSE 0
\* node-cache needs MAX_ITEMS keys to fail; one key shows a tier's faults.
KeysOf(b) == IF b = "MemoryCache" THEN Keys ELSE MgrKeys

\* this.errors++ in a catch block
ErrorsForgotten(e, n) == e
ErrorsPlus(e, n) == e + n

\* The catch block of a RedisCache / CassandraCache method is entered when
\* the command was issued and failed.
L1Caught(f) == Bit(l1conn /\ f)
L2Caught(f) == Bit(l2conn /\ f)

L1ExistsOut(s, k, f) ==
  [s |-> s, op |-> Op("l1.exists", k, NoData, 0, 0, ~f /\ L1Exists(s, k))]
L2ExistsOut(s, k, f) ==
  [s |-> s, op |-> Op("l2.exists", k, NoData, 0, 0, ~f /\ L2Exists(s, k))]

\* HybridCache.exists: L1 is asked first, L2 only when L1 said no.
HybExistsOut(s1, s2, k, f1, f2) ==
  LET r1 == redisConnected /\ L1ExistsOut(s1, k, f1).op.res
      r2 == cassandraConnected /\ L2ExistsOut(s2, k, f2).op.res
  IN  [s1 |-> s1, s2 |-> s2, asked2 |-> ~r1,
       op |-> Op("hyb.exists", k, NoData, 0, 0, r1 \/ r2)]

\* One call: the stores and the result as the operation leaves them, and
\* the number of times each backend's catch block ran.
CallOut(b, opn, k, v, f1, f2, fp) ==
  LET m == MetaOf(v)
      E(x, y, z) == [mem |-> x, l1 |-> y, l2 |-> z]
      M(c, cur, op, threw) ==
        [mc |-> c, cur |-> cur, s1 |-> l1, s2 |-> l2, op |-> op,
         e |-> E(Bit(threw), 0, 0)]
      T1(o) == [mc |-> mcache, cur |-> currentCacheSize, s1 |-> o.s,
                s2 |-> l2, op |-> o.op, e |-> E(0, L1Caught(f1), 0)]
      T2(o) == [mc |-> mcache, cur |-> currentCacheSize, s1 |-> l1,
                s2 |-> o.s, op |-> o.op, e |-> E(0, 0, L2Caught(f2))]
      H(o, e1, e2) == [mc |-> mcache, cur |-> currentCacheSize, s1 |-> o.s1,
                       s2 |-> o.s2, op |-> o.op, e |-> E(0, e1, e2)]
      h1 == IF redisConnected THEN L1Caught(f1) ELSE 0
      h2 == IF cassandraConnected THEN L2Caught(f2) ELSE 0
      hit1 == redisConnected /\ L1GetOut(l1, k, f1).op.res
      hit2 == cassandraConnected /\ L2GetOut(l2, k, f2).op.res
  IN  CASE b = "MemoryCache" ->
             (CASE opn = "get" ->
                     LET o == MemGetOut(k)
                     IN  M(o.c, currentCacheSize, o.op, o.threw)
                [] opn = "set" ->
                     LET o == MemSetOut(k, v, 0) IN M(o.c, o.cur, o.op, o.threw)
                [] opn = "delete" ->
                     LET o == MemDeleteOut(k) IN M(o.c, o.cur, o.op, FALSE)
                [] opn = "exists" ->
                     LET o == MemExistsOut(k)
                     IN  M(o.c, currentCacheSize, o.op, FALSE)
                [] opn = "clear" ->
                     M(<<>>, 0, Op("mem.clear", "", NoData, 0, 0, TRUE), FALSE)
                [] OTHER ->
                     LET o == MemIncOut(k)
                     IN  M(o.c, currentCacheSize, o.op, o.threw))
        [] b = "RedisCache" ->
             T1(CASE opn = "get" -> L1GetOut(l1, k, f1)
                  [] opn = "set" -> L1SetOut(l1, k, v, m, 0, f1)
                  [] opn = "delete" -> L1DeleteOut(l1, k, f1)
                  [] opn = "exists" -> L1ExistsOut(l1, k, f1)
                  [] opn = "clear" -> L1ClearOut(l1, f1)
                  [] OTHER -> L1IncOut(l1, k, f1))
        [] b = "CassandraCache" ->
             T2(CASE opn = "get" -> L2GetOut(l2, k, f2)
                  [] opn = "set" -> L2SetOut(l2, k, v, m, 0, f2)
                  [] opn = "delete" -> L2DeleteOut(l2, k, f2)
                  [] opn = "exists" -> L2ExistsOut(l2, k, f2)
                  [] opn = "clear" -> L2ClearOut(l2, f2)
                  [] OTHER -> L2IncOut(l2, k, f2))
        [] OTHER ->
             (CASE opn = "get" ->
                     H(HybGetOut(l1, l2, k, f1, f2, fp),
                       h1 + (IF ~hit1 /\ hit2 /\ redisConnected
                             THEN L1Caught(fp) ELSE 0),
                       IF hit1 THEN 0 ELSE h2)
                [] opn = "set" -> H(HybSetOut(l1, l2, k, v, m, 0, f1, f2), h1, h2)
                [] opn = "delete" -> H(HybDeleteOut(l1, l2, k, f1, f2), h1, h2)
                [] opn = "exists" ->
                     LET o == HybExistsOut(l1, l2, k, f1, f2)
                     IN  H(o, h1, IF o.asked2 THEN h2 ELSE 0)
                [] opn = "clear" -> H(HybClearOut(l1, l2, f1, f2), h1, h2)
                [] OTHER -> H(HybIncOut(l1, l2, k, f1, f2), h1, h2))

\* The names of the operations of backend b, and the faults that can reach
\* it: Memory talks to no remote store, a single tier to its own.
OpsOf(b) ==
  {CallOut(b, opn, "a", NoData, FALSE, FALSE, FALSE).op.op : opn \in DataOps}
FaultsOf(b) ==
  CASE b = "MemoryCache" -> {<<FALSE, FALSE>>}
    [] b = "RedisCache" -> BOOLEAN \X {FALSE}
    [] b = "CassandraCache" -> {FALSE} \X BOOLEAN
    [] OTHER -> TierFaults

\* A process drives one backend object: the calls of a behaviour go to the
\* backend that served its first call.
Call(b, opn, k, v, f1, f2, fp) ==
  LET o == CallOut(b, opn, k, v, f1, f2, fp) IN
  /\ \/ last.op = (IF b = "MemoryCache" THEN "none" ELSE "hyb.initialize")
     \/ last.op \in OpsOf(b)
  /\ HitsBounded(o.s1) /\ HitsBounded(o.s2)
  /\ \A i \in 1..Len(o.mc) : o.mc[i].hitCount <= MaxHits
  /\ \A x \in DOMAIN errors : faults[x] + o.e[x] <= MaxErrors
  /\ mcache' = o.mc
  /\ currentCacheSize' = o.cur
  /\ l1' = o.s1
  /\ l2' = o.s2
  /\ last' = o.op
  /\ errors' = [x \in DOMAIN errors |-> ErrorsPlus(errors[x], o.e[x])]
  /\ faults' = [x \in DOMAIN faults |-> faults[x] + o.e[x]]
  /\ UNCHANGED <<now, l1conn, l2conn, redisConnected, cassandraConnected,
                 cdnCache, req, mgr, sets, cap>>

NextErr ==
  \/ \E r, c \in BOOLEAN : HybInitialize(r, c)
  \/ \E b \in Backends, fp \in BOOLEAN : \E f \in FaultsOf(b), k \in KeysOf(b) :
        Call(b, "get", k, NoData, f[1], f[2], fp)
  \/ \E b \in Backends, v \in MgrPayloads : \E f \in FaultsOf(b), k \in KeysOf(b) :
        Call(b, "set", k, v, f[1], f[2], FALSE)
  \/ \E b \in Backends : \E f \in FaultsOf(b), k \in KeysOf(b) :
        Call(b, "delete", k, NoData, f[1], f[2], FALSE)
  \/ \E b \in Backends : \E f \in FaultsOf(b), k \in KeysOf(b) :
        Call(b, "exists", k, NoData, f[1], f[2], FALSE)
  \/ \E b \in Backends : \E f \in FaultsOf(b) :
        Call(b, "clear", "", NoData, f[1], f[2], FALSE)
  \/ \E b \in Backends : \E f \in FaultsOf(b), k \in KeysOf(b) :
        Call(b, "incrementHitCount", k, NoData, f[1], f[2], FALSE)

SpecErr == Init /\ [][NextErr]_vars

\* -------------------------------------------------------- CDN GET /*
CdnVars == <<now, memVars, tierVars, last, mgr, errors, faults, sets, cap>>

\* A deployment mounts one version of the handler, and a behaviour asks
\* for one path.
CdnStart(route, path, range, found, body, adv, cf) ==
  /\ req.phase # "streaming"
  /\ req.route \in {"", route}
  /\ req.path \in {<<>>, path}
  /\ req' = CdnGetOut(cdnCache, route, path, range, found, body, adv, cf)
  /\ UNCHANGED <<cdnCache, CdnVars>>

CdnHead(route, path, found) ==
  /\ req.phase # "streaming"
  /\ req.route \in {"", route}
  /\ req.path \in {<<>>, path}
  /\ req' = CdnHeadOut(route, path, found)
  /\ UNCHANGED <<cdnCache, CdnVars>>

CdnData ==
  /\ req.phase = "streaming"
  /\ req.pending # <<>>
  /\ req' = CdnDataOut(req)
  /\ UNCHANGED <<cdnCache, CdnVars>>

CdnEnd(sf) ==
  /\ req.phase = "streaming"
  /\ req.pending = <<>>
  /\ req' = CdnEndOut(cdnCache, req, sf).req
  /\ cdnCache' = CdnEndOut(cdnCache, req, sf).cache
  /\ UNCHANGED CdnVars

CdnStreamError ==
  /\ req.phase = "streaming"
  /\ req' = CdnAbortOut(req, "error")
  /\ UNCHANGED <<cdnCache, CdnVars>>

CdnClientClose ==
  /\ req.phase = "streaming"
  /\ req' = CdnAbortOut(req, "closed")
  /\ UNCHANGED <<cdnCache, CdnVars>>

\* An entry's ttl runs out.
CdnExpire(ck) ==
  /\ cdnCache[ck].present
  /\ cdnCache' = [cdnCache EXCEPT ![ck] = NoItem]
  /\ UNCHANGED <<req, CdnVars>>

NextCdn ==
  \/ \E route \in Routes, path \in Paths, range \in Ranges, cf \in BOOLEAN :
       \/ CdnStart(route, path, range, FALSE, <<>>, 0, cf)
       \/ \E body \in Bodies : \E adv \in AdvLens(body) :
             CdnStart(route, path, range, TRUE, body, adv, cf)
  \/ \E route \in Routes, path \in Paths, found \in BOOLEAN :
       CdnHead(route, path, found)
  \/ CdnData
  \/ \E sf \in BOOLEAN : CdnEnd(sf)
  \/ CdnStreamError
  \/ CdnClientClose
  \/ \E ck \in CacheKeys : CdnExpire(ck)

SpecCdn == Init /\ [][NextCdn]_vars

\* ----------------------------------------------------------- CacheManager
createBackend(mode) ==
  CASE mode = "redis" -> "RedisCache"
    [] mode = "cassandra" -> "CassandraCache"
    [] mode = "redis-cassandra" -> "HybridCache"
    [] OTHER -> "MemoryCache"

\* The connection flags of the backend object and the Memory backend's
\* contents, as one value the manager's methods transform.
Conn(c1, c2, r, c) == [l1conn |-> c1, l2conn |-> c2, redis |-> r, cass |-> c]
NowConn == Conn(l1conn, l2conn, redisConnected, cassandraConnected)
Mem(c, cur) == [c |-> c, cur |-> cur]
NowMem == Mem(mcache, currentCacheSize)

\* new XCache(): a Memory backend starts empty, a remote one disconnected.
Construct(b, conn, mem) ==
  [conn |-> CASE b = "RedisCache" -> [conn EXCEPT !.l1conn = FALSE]
              [] b = "CassandraCache" -> [conn EXCEPT !.l2conn = FALSE]
              [] b = "HybridCache" -> Conn(FALSE, FALSE, FALSE, FALSE)
              [] OTHER -> conn,
   mem |-> IF b = "MemoryCache" THEN Mem(<<>>, 0) ELSE mem]

\* backend.initialize(): r and c tell whether Redis and Cassandra connect.
\* Memory never throws, Redis and Cassandra throw when they cannot connect,
\* Hybrid throws when neither tier connects.
BackendInit(b, conn, r, c) ==
  CASE b = "RedisCache" -> [ok |-> r, conn |-> [conn EXCEPT !.l1conn = r]]
    [] b = "CassandraCache" -> [ok |-> c, conn |-> [conn EXCEPT !.l2conn = c]]
    [] b = "HybridCache" -> [ok |-> r \/ c, conn |-> Conn(r, c, r, c)]
    [] OTHER -> [ok |-> TRUE, conn |-> conn]

\* backend.close(): none of them throws.
BackendCloseSkipped(b, conn, mem) == [conn |-> conn, mem |-> mem]
BackendClose(b, conn, mem) ==
  [conn |-> CASE b = "RedisCache" -> [conn EXCEPT !.l1conn = FALSE]
              [] b = "CassandraCache" -> [conn EXCEPT !.l2conn = FALSE]
              [] b = "HybridCache" -> Conn(FALSE, FALSE, FALSE, FALSE)
              [] OTHER -> conn,
   mem |-> IF b = "MemoryCache" THEN Mem(<<>>, mem.cur) ELSE mem]

\* The fallback both initialize and switchBackend take.
ToMemory(m, conn, mem, call, ret) ==
  [mgr |-> [m EXCEPT !.mode = "memory", !.backend = "MemoryCache",
                     !.initialized = TRUE, !.call = call, !.ret = ret,
                     !.failed = TRUE],
   conn |-> conn, mem |-> Construct("MemoryCache", conn, mem).mem]

\* initialize falls back when the configured mode is not memory.
FallsBackNever(mode) == FALSE
FallsBack(mode) == mode # "memory"

MgrInitializeOut(m, conn, mem, r, c) ==
  LET i == BackendInit(m.backend, conn, r, c) IN
  IF i.ok
  THEN [mgr |-> [m EXCEPT !.initialized = TRUE, !.call = "initialize",
                          !.ret = "returned", !.failed = FALSE],
        conn |-> i.conn, mem |-> mem]
  ELSE IF FallsBack(m.mode)
  THEN ToMemory(m, i.conn, mem, "initialize", "returned")
  ELSE [mgr |-> [m EXCEPT !.initialized = FALSE, !.call = "initialize",
                          !.ret = "threw", !.failed = TRUE],
        conn |-> i.conn, mem |-> mem]

MgrSwitchOut(m, conn, mem, newMode, r, c) ==
  LET cl == IF m.initialized THEN BackendClose(m.backend, conn, mem)
            ELSE [conn |-> conn, mem |-> mem]
      b  == createBackend(newMode)
      n  == Construct(b, cl.conn, cl.mem)
      i  == BackendInit(b, n.conn, r, c)
  IN  IF i.ok
      THEN [mgr |-> [m EXCEPT !.mode = newMode, !.backend = b,
                              !.initialized = TRUE, !.call = "switchBackend",
                              !.ret = "true", !.failed = FALSE],
            conn |-> i.conn, mem |-> n.mem]
      ELSE ToMemory(m, i.conn, n.mem, "switchBackend", "false")

MgrCloseSkipped(m, conn, mem) ==
  [mgr |-> [m EXCEPT !.call = "close", !.ret = "returned", !.failed = FALSE],
   conn |-> conn, mem |-> mem]
MgrCloseOut(m, conn, mem) ==
  LET cl == IF m.initialized THEN BackendClose(m.backend, conn, mem)
            ELSE [conn |-> conn, mem |-> mem]
  IN  [mgr |-> [m EXCEPT !.initialized = FALSE, !.call = "close",
                         !.ret = "returned", !.failed = FALSE],
       conn |-> cl.conn, mem |-> cl.mem]

getMode(m) == m.mode
\* getStats().mode: the manager's own mode while it is not initialized, the
\* mode the backend reports otherwise.
StatsMode(m) ==
  IF ~m.initialized THEN m.mode
  ELSE CASE m.backend = "RedisCache" -> "redis"
         [] m.backend = "CassandraCache" -> "cassandra"
         [] m.backend = "HybridCache" -> "hybrid (redis-cassandra)"
         [] OTHER -> "memory"

\* The pass-through methods reach the backend once the manager is
\* initialized: if (!this.initialized) return <default>.
ReadyAlways(m) == TRUE
Ready(m) == m.initialized

Stores(mc, cur, s1, s2, op) ==
  [mc |-> mc, cur |-> cur, s1 |-> s1, s2 |-> s2, op |-> op]
MgrGetOut(k) ==
  IF ~Ready(mgr)
  THEN Stores(mcache, currentCacheSize, l1, l2,
              Op("mgr.get", k, NoData, 0, 0, FALSE))
  ELSE CASE mgr.backend = "RedisCache" ->
              LET g == L1GetOut(l1, k, FALSE)
              IN  Stores(mcache, currentCacheSize, g.s, l2, g.op)
         [] mgr.backend = "CassandraCache" ->
              LET g == L2GetOut(l2, k, FALSE)
              IN  Stores(mcache, currentCacheSize, l1, g.s, g.op)
         [] mgr.backend = "HybridCache" ->
              LET g == HybGetOut(l1, l2, k, FALSE, FALSE, FALSE)
              IN  Stores(mcache, currentCacheSize, g.s1, g.s2, g.op)
         [] OTHER ->
              LET g == MemGetOut(k)
              IN  Stores(g.c, currentCacheSize, l1, l2, g.op)

MgrSetOut(k, v) ==
  IF ~Ready(mgr)
  THEN Stores(mcache, currentCacheSize, l1, l2,
              Op("mgr.set", k, v, 0, 0, FALSE))
  ELSE CASE mgr.backend = "RedisCache" ->
              LET w == L1SetOut(l1, k, v, MetaOf(v), 0, FALSE)
              IN  Stores(mcache, currentCacheSize, w.s, l2, w.op)
         [] mgr.backend = "CassandraCache" ->
              LET w == L2SetOut(l2, k, v, MetaOf(v), 0, FALSE)
              IN  Stores(mcache, currentCacheSize, l1, w.s, w.op)
         [] mgr.backend = "HybridCache" ->
              LET w == HybSetOut(l1, l2, k, v, MetaOf(v), 0, FALSE, FALSE)
              IN  Stores(mcache, currentCacheSize, w.s1, w.s2, w.op)
         [] OTHER ->
              LET w == MemSetOut(k, v, 0)
              IN  Stores(w.c, w.cur, l1, l2, w.op)

MgrDeleteOut(k) ==
  IF ~Ready(mgr)
  THEN Stores(mcache, currentCacheSize, l1, l2,
              Op("mgr.delete", k, NoData, 0, 0, FALSE))
  ELSE CASE mgr.backend = "RedisCache" ->
              LET d == L1DeleteOut(l1, k, FALSE)
              IN  Stores(mcache, currentCacheSize, d.s, l2, d.op)
         [] mgr.backend = "CassandraCache" ->
              LET d == L2DeleteOut(l2, k, FALSE)
              IN  Stores(mcache, currentCacheSize, l1, d.s, d.op)
         [] mgr.backend = "HybridCache" ->
              LET d == HybDeleteOut(l1, l2, k, FALSE, FALSE)
              IN  Stores(mcache, currentCacheSize, d.s1, d.s2, d.op)
         [] OTHER ->
              LET d == MemDeleteOut(k)
              IN  Stores(d.c, d.cur, l1, l2, d.op)

MgrExistsOut(k) ==
  IF ~Ready(mgr)
  THEN Stores(mcache, currentCacheSize, l1, l2,
              Op("mgr.exists", k, NoData, 0, 0, FALSE))
  ELSE CASE mgr.backend = "RedisCache" ->
              Stores(mcache, currentCacheSize, l1, l2,
                     Op("l1.exists", k, NoData, 0, 0, L1Exists(l1, k)))
         [] mgr.backend = "CassandraCache" ->
              Stores(mcache, currentCacheSize, l1, l2,
                     Op("l2.exists", k, NoData, 0, 0, L2Exists(l2, k)))
         [] mgr.backend = "HybridCache" ->
              Stores(mcache, currentCacheSize, l1, l2,
                     Op("hyb.exists", k, NoData, 0, 0, HybExists(l1, l2, k)))
         [] OTHER ->
              LET e == MemExistsOut(k)
              IN  Stores(e.c, currentCacheSize, l1, l2, e.op)

MgrClearOut ==
  IF ~Ready(mgr)
  THEN Stores(mcache, currentCacheSize, l1, l2,
              Op("mgr.clear", "", NoData, 0, 0, FALSE))
  ELSE CASE mgr.backend = "RedisCache" ->
              LET d == L1ClearOut(l1, FALSE)
              IN  Stores(mcache, currentCacheSize, d.s, l2, d.op)
         [] mgr.backend = "CassandraCache" ->
              LET d == L2ClearOut(l2, FALSE)
              IN  Stores(mcache, currentCacheSize, l1, d.s, d.op)
         [] mgr.backend = "HybridCache" ->
              LET d == HybClearOut(l1, l2, FALSE, FALSE)
              IN  Stores(mcache, currentCacheSize, d.s1, d.s2, d.op)
         [] OTHER ->
              Stores(<<>>, 0, l1, l2, Op("mem.clear", "", NoData, 0, 0, TRUE))

\* isHealthy: Memory is always healthy, a remote backend while it is
\* connected and answers the probe, Hybrid when one connected tier does.
MgrIsHealthy ==
  IF ~Ready(mgr) THEN FALSE
  ELSE CASE mgr.backend = "RedisCache" -> l1conn
         [] mgr.backend = "CassandraCache" -> l2conn
         [] mgr.backend = "HybridCache" ->
              (redisConnected /\ l1conn) \/ (cassandraConnected /\ l2conn)
         [] OTHER -> TRUE

\* getStats(): enabled, mode and connected of the record returned.
MgrStats ==
  [enabled |-> Ready(mgr),
   mode |-> StatsMode(mgr),
   connected |->
     IF ~Ready(mgr) THEN FALSE
     ELSE CASE mgr.backend = "RedisCache" -> l1conn
            [] mgr.backend = "CassandraCache" -> l2conn
            [] mgr.backend = "HybridCache" ->
                 redisConnected \/ cassandraConnected
            [] OTHER -> TRUE]

MgrApply(out) ==
  /\ mgr' = out.mgr
  /\ l1conn' = out.conn.l1conn
  /\ l2conn' = out.conn.l2conn
  /\ redisConnected' = out.conn.redis
  /\ cassandraConnected' = out.conn.cass
  /\ mcache' = out.mem.c
  /\ currentCacheSize' = out.mem.cur
  /\ UNCHANGED <<now, l1, l2, last, cdnCache, req, errors, faults, sets, cap>>

\* The module is loaded: the constructor reads CACHE.MODE.
MgrConstruct(mode) ==
  /\ mgr = NoMgr
  /\ MgrApply([mgr |-> [NoMgr EXCEPT !.mode = mode,
                                     !.backend = createBackend(mode),
                                     !.call = "constructor"],
               conn |-> NowConn, mem |-> NowMem])

MgrInitialize(r, c) ==
  /\ mgr.call # ""
  /\ MgrApply(MgrInitializeOut(mgr, NowConn, NowMem, r, c))

MgrSwitchBackend(newMode, r, c) ==
  /\ mgr.call \notin {"", "constructor"}
  /\ MgrApply(MgrSwitchOut(mgr, NowConn, NowMem, newMode, r, c))

MgrClose ==
  /\ mgr.call \notin {"", "constructor"}
  /\ MgrApply(MgrCloseOut(mgr, NowConn, NowMem))

MgrData(out, call) ==
  /\ mgr.call \notin {"", "constructor"}
  /\ HitsBounded(out.s1)
  /\ \A i \in 1..Len(out.mc) : out.mc[i].hitCount <= MaxHits
  /\ mgr' = [mgr EXCEPT !.call = call, !.ret = "returned", !.failed = FALSE]
  /\ mcache' = out.mc
  /\ currentCacheSize' = out.cur
  /\ l1' = out.s1
  /\ l2' = out.s2
  /\ last' = out.op
  /\ UNCHANGED <<now, l1conn, l2conn, redisConnected, cassandraConnected,
                 cdnCache, req, errors, faults, sets, cap>>

MgrGet(k) == MgrData(MgrGetOut(k), "get")
MgrSet(k, v) == MgrData(MgrSetOut(k, v), "set")
MgrDelete(k) == MgrData(MgrDeleteOut(k), "delete")
MgrExists(k) == MgrData(MgrExistsOut(k), "exists")
MgrClear == MgrData(MgrClearOut, "clear")


NextMgr ==
  \/ \E mode \in Modes : MgrConstruct(mode)
  \/ \E r, c \in BOOLEAN : MgrInitialize(r, c)
  \/ \E mode \in Modes, r, c \in BOOLEAN : MgrSwitchBackend(mode, r, c)
  \/ MgrClose
  \/ \E k \in MgrKeys : MgrGet(k)
  \/ \E k \in MgrKeys, v \in MgrPayloads : MgrSet(k, v)
  \/ \E k \in MgrKeys : MgrDelete(k)
  \/ \E k \in MgrKeys : MgrExists(k)
  \/ MgrClear

SpecMgr == Init /\ [][NextMgr]_vars

\* ===================================================================
\* CacheManager.switchBackend step by step: it is suspended at
\* `await this.backend.close()` and at `await this.backend.initialize()`,
\* and other calls run in between.  `ret` tells where it is suspended,
\* `arg` holds newMode.
\* ===================================================================
Awaits == {"awaits close", "awaits initialize"}
Idle(m) == m.call \notin {"", "constructor"} /\ m.ret \notin Awaits

\* if (this.initialized) await this.backend.close()
SwitchClose(newMode) ==
  LET cl == BackendClose(mgr.backend, NowConn, NowMem) IN
  /\ Idle(mgr)
  /\ mgr.initialized
  /\ MgrApply([mgr |-> [mgr EXCEPT !.call = "switchBackend",
                                   !.ret = "awaits close", !.arg = newMode],
               conn |-> cl.conn, mem |-> cl.mem])

\* this.mode = newMode; this.backend = this.createBackend(newMode);
\* await this.backend.initialize()
SwitchCreate(newMode) ==
  LET b == createBackend(newMode)
      n == Construct(b, NowConn, NowMem)
  IN  /\ \/ mgr.ret = "awaits close" /\ mgr.arg = newMode
         \/ Idle(mgr) /\ ~mgr.initialized
      /\ MgrApply([mgr |-> [mgr EXCEPT !.mode = newMode, !.backend = b,
                                       !.call = "switchBackend",
                                       !.ret = "awaits initialize",
                                       !.arg = newMode],
                   conn |-> n.conn, mem |-> n.mem])

\* initialize settles: initialized = true, or the fallback to Memory.
SwitchEnd(r, c) ==
  LET i == BackendInit(mgr.backend, NowConn, r, c) IN
  /\ mgr.ret = "awaits initialize"
  /\ MgrApply(IF i.ok
              THEN [mgr |-> [mgr EXCEPT !.initialized = TRUE, !.ret = "true",
                                        !.failed = FALSE],
                    conn |-> i.conn, mem |-> NowMem]
              ELSE ToMemory(mgr, i.conn, NowMem, "switchBackend", "false"))

\* A get or set that arrives while switchBackend is suspended.
Arrives(out) ==
  /\ mgr.ret \in Awaits
  /\ HitsBounded(out.s1)
  /\ \A i \in 1..Len(out.mc) : out.mc[i].hitCount <= MaxHits
  /\ mcache' = out.mc
  /\ currentCacheSize' = out.cur
  /\ l1' = out.s1
  /\ l2' = out.s2
  /\ last' = out.op
  /\ UNCHANGED <<now, l1conn, l2conn, redisConnected, cassandraConnected,
                 extVars>>

\* initialize and the data calls of a manager that is not switching.
SettledInitialize(r, c) == mgr.ret \notin Awaits /\ MgrInitialize(r, c)
SettledGet(k) == Idle(mgr) /\ MgrGet(k)
SettledSet(k, v) == Idle(mgr) /\ MgrSet(k, v)

NextSwitch ==
  \/ \E mode \in Modes : MgrConstruct(mode)
  \/ \E r, c \in BOOLEAN : SettledInitialize(r, c)
  \/ \E mode \in Modes : SwitchClose(mode)
  \/ \E mode \in Modes : SwitchCreate(mode)
  \/ \E r, c \in BOOLEAN : SwitchEnd(r, c)
  \/ \E k \in MgrKeys : Arrives(MgrGetOut(k))
  \/ \E k \in MgrKeys, v \in MgrPayloads : Arrives(MgrSetOut(k, v))
  \/ \E k \in MgrKeys : SettledGet(k)
  \/ \E k \in MgrKeys, v \in MgrPayloads : SettledSet(k, v)

SpecSwitch == Init /\ [][NextSwitch]_vars

\* ===================================================================
\* CacheCapacityManager.checkAndManageCapacity through the cache manager:
\* nothing while the manager is not initialized, else by mode: redis and
\* cassandra evict from their one store, redis-cassandra runs the hybrid
\* cycle, memory does nothing.  n1 / n2: the number of items asked of
\* getItemsByHitCount for L1 / L2, -1 when the tier was not acted on.
\* ===================================================================
RECURSIVE EvictL1(_, _, _)
EvictL1(s1, items, D) ==
  IF items = <<>> THEN s1
  ELSE LET d == L1DeleteOut(s1, items[1].key, items[1].key \in D)
       IN  EvictL1(d.s, IF d.op.res THEN Tail(items) ELSE Continue(items), D)

Managed(s1, s2, n1, n2) == [s1 |-> s1, s2 |-> s2, n1 |-> n1, n2 |-> n2]

manageRedisCapacity(s1, s2, ord1) ==
  IF L1OverThreshold(s1)
  THEN LET n == Ceil20(L1ItemCount(s1))
       IN  Managed(EvictL1(s1, L1Items(s1, n, ord1), {}), s2, n, -1)
  ELSE Managed(s1, s2, -1, -1)

manageCassandraCapacity(s1, s2, ord2) ==
  IF L2OverThreshold(s2)
  THEN LET n == Ceil10(L2ItemCount(s2))
       IN  Managed(s1, EvictL2(s2, L2Items(s2, n, ord2), {}), -1, n)
  ELSE Managed(s1, s2, -1, -1)

manageHybridCapacity(s1, s2, ord1, ord2, F2, D1) ==
  LET h == ManageHybridOut(s1, s2, ord1, ord2, F2, D1)
      mid == IF redisConnected /\ L1OverThreshold(s1)
             THEN MoveItems(s1, s2, L1Items(s1, Ceil20(L1ItemCount(s1)), ord1),
                            F2, D1).s2
             ELSE s2
  IN  Managed(h.s1, h.s2,
              IF redisConnected /\ L1OverThreshold(s1)
              THEN Ceil20(L1ItemCount(s1)) ELSE -1,
              IF cassandraConnected /\ L2OverThreshold(mid)
              THEN Ceil10(L2ItemCount(mid)) ELSE -1)

checkAndManageCapacity(m, s1, s2, ord1, ord2, F2, D1) ==
  IF ~m.initialized THEN Managed(s1, s2, -1, -1)
  ELSE CASE getMode(m) = "redis" -> manageRedisCapacity(s1, s2, ord1)
         [] getMode(m) = "cassandra" -> manageCassandraCapacity(s1, s2, ord2)
         [] getMode(m) = "redis-cassandra" ->
              manageHybridCapacity(s1, s2, ord1, ord2, F2, D1)
         [] OTHER -> Managed(s1, s2, -1, -1)

\* forceCapacityCheck() or a tick of the timer, the whole cycle in one step;
\* `res` records whether the cycle acted on a tier.
ForceCapacityCheck(ord1, ord2, F2, D1) ==
  LET o == checkAndManageCapacity(mgr, l1, l2, ord1, ord2, F2, D1) IN
  /\ mgr.call # ""
  /\ HitsBounded(o.s1)
  /\ l1' = o.s1
  /\ l2' = o.s2
  /\ last' = Op("capacity.check", "", NoData, 0, 0, o.n1 # -1 \/ o.n2 # -1)
  /\ UNCHANGED <<now, memVars, l1conn, l2conn, redisConnected,
                 cassandraConnected, extVars>>

TickThresholds == {Undefined, Num(50)}

NextCheck ==
  \/ \E mode \in Modes : MgrConstruct(mode)
  \/ \E r, c \in BOOLEAN : MgrInitialize(r, c)
  \/ MgrClose
  \/ \E k \in Keys, v \in TickPayloads : MgrSet(k, v)
  \/ \E r, t \in TickThresholds : UpdateThresholds(r, t)
  \/ \E ord1, ord2 \in Orders, F \in MoveFaults :
        ForceCapacityCheck(ord1, ord2, F[1], F[2])

SpecCheck == Init /\ [][NextCheck]_vars

\* ===================================================================
\* Properties
\* ===================================================================
NoFault == FALSE
Distinct(r) == \A i, j \in 1..Len(r) : i # j => r[i].key # r[j].key
Ascending(r) == \A i, j \in 1..Len(r) : i < j => r[i].hitCount <= r[j].hitCount
SameItem(g, v, exp) ==
  g.res /\ g.data = v /\ g.size = Len(v) /\ g.exp = exp

\* C1: on a connected single backend (Memory, L1, L2), after set(k, v,
\* {ttl: T}) returned true and while nothing else touched k, a get(k) issued
\* before T elapses returns data == v, size == len(v) and
\* expiresAt == (time of the set) + T, for payloads of every length >= 0.
C1_GetAfterSet ==
  (last.res /\ now < last.exp) =>
     /\ last.op = "mem.set" =>
          SameItem(MemGetOut(last.key).op, last.data, last.exp)
     /\ (last.op = "l1.set" /\ l1conn) =>
          SameItem(L1GetOut(l1, last.key, NoFault).op, last.data, last.exp)
     /\ (last.op = "l2.set" /\ l2conn) =>
          SameItem(L2GetOut(l2, last.key, NoFault).op, last.data, last.exp)

\* C2: whenever Hybrid.set(k, v) returned true, a Hybrid.get(k) issued after
\* it, before expiry and with no set/delete/clear of k in between, returns
\* an item whose data is v, whichever single tier failed during the set.
C2_HybridSetObservable ==
  (last.op = "hyb.set" /\ last.res /\ now < last.exp) =>
     LET g == HybGetOut(l1, l2, last.key, NoFault, NoFault, NoFault).op
     IN  g.res /\ g.data = last.data

\* C3: once delete(k) has completed, and until the next set of k, exists(k)
\* is false and get(k) is null; for Hybrid in every case in which
\* Hybrid.delete returned true.
C3_DeletedIsGone ==
  /\ last.op = "mem.delete" =>
       ~MemExistsOut(last.key).op.res /\ ~MemGetOut(last.key).op.res
  /\ (last.op = "l1.delete" /\ last.res) =>
       ~L1Exists(l1, last.key) /\ ~L1GetOut(l1, last.key, NoFault).op.res
  /\ (last.op = "l2.delete" /\ last.res) =>
       ~L2Exists(l2, last.key) /\ ~L2GetOut(l2, last.key, NoFault).op.res
  /\ (last.op = "hyb.delete" /\ last.res) =>
       /\ ~HybExists(l1, l2, last.key)
       /\ ~HybGetOut(l1, l2, last.key, NoFault, NoFault, NoFault).op.res

\* C4: a get(k) issued after the item's expiresAt (set time + ttl) returns
\* null and removes the item, and a following exists(k) is false, however
\* many gets hit the item before it expired.
C4_ExpiredIsMiss ==
  \A k \in Keys :
    /\ (NcHasKey(mcache, k) /\ mcache[NcIdx(mcache, k)].expiresAt < now) =>
         /\ ~MemGetOut(k).op.res
         /\ ~NcHasKey(MemGetOut(k).c, k)
    /\ (l1conn /\ l1[k].full /\ l1[k].expiresAt < now) =>
         /\ ~L1GetOut(l1, k, NoFault).op.res
         /\ ~L1GetOut(l1, k, NoFault).s[k].present
    /\ (l2conn /\ l2[k].present /\ l2[k].expiresAt < now) =>
         /\ ~L2GetOut(l2, k, NoFault).op.res
         /\ ~L2GetOut(l2, k, NoFault).s[k].present

\* C5: in the Memory backend the reported usedBytes (currentCacheSize)
\* equals the sum of size over the items currently stored.
C5_UsedBytesExact == MemUsedBytes = SumSize(mcache)

\* C6: Memory.set(k, v) with len(v) > MAX_SIZE returns false and leaves the
\* cache exactly as it was: same keys, same items, same usedBytes.
C6_OversizeRejectedUntouched ==
  [][\A k \in Keys, v \in Payloads, t \in TtlOpts :
       (Len(v) > MAX_SIZE /\ MemSet(k, v, t)) =>
          /\ ~last'.res
          /\ mcache' = mcache
          /\ currentCacheSize' = currentCacheSize]_vars

C8_ClearEmpties ==
  /\ (last.op = "mem.clear" /\ last.res) =>
       MemStatsItems = 0 /\ \A k \in Keys : ~MemGetOut(k).op.res
  /\ (last.op = "l1.clear" /\ last.res) =>
       L1StatsItems(l1) = 0 /\ \A k \in Keys : ~L1GetOut(l1, k, NoFault).op.res
  /\ (last.op = "hyb.clear" /\ last.res) =>
       /\ HybStatsItems(l1, l2) = 0
       /\ \A k \in Keys :
            ~HybGetOut(l1, l2, k, NoFault, NoFault, NoFault).op.res

\* C9: getItemsByHitCount(n) returns at most n entries with pairwise
\* distinct keys in non-decreasing hitCount order; for Hybrid an entry whose
\* key is stored in both tiers carries the sum of the two tiers' hit counts.
C9_ItemsByHitCount ==
  \A n \in 0..MaxLimit, o1, o2 \in Orders :
    /\ LET r == MemItemsOut(n).list
       IN  Len(r) <= n /\ Distinct(r) /\ Ascending(r)
    /\ LET r == L1Items(l1, n, o1)
       IN  Len(r) <= n /\ Distinct(r) /\ Ascending(r)
    /\ (redisConnected /\ cassandraConnected /\ l1conn /\ l2conn) =>
         LET r == HybItems(l1, l2, n, o1, o2)
         IN  /\ Len(r) <= n /\ Distinct(r) /\ Ascending(r)
             /\ \A i \in 1..Len(r) :
                  (l1[r[i].key].full /\ l2[r[i].key].present) =>
                     r[i].hitCount = l1[r[i].key].hitCount
                                     + l2[r[i].key].hitCount

\* C10: in Hybrid mode with both tiers connected and L2 accepting every
\* write, a capacity tick that starts with L1 usedPercentage >= 85 and L2
\* usedPercentage < 90 ends with L1 usedPercentage < 85, whatever the sizes
\* and hit counts of the L1 items.
C10_TickRelievesL1 ==
  [][\A o1, o2 \in Orders :
       (/\ CapacityTick(o1, o2, {}, {})
        /\ redisConnected /\ cassandraConnected /\ l1conn /\ l2conn
        /\ L1OverThreshold(l1)
        /\ L1UsedBytes(l1) <= L1MaxBytes
        /\ ~L2OverThreshold(l2))
       => ~L1OverThreshold(l1')]_vars

\* C11: in Hybrid mode, after a capacity cycle that found L1 at or over its
\* threshold, every key the cycle migrated is present in L2 with the data
\* and the metadata (contentType, etag, lastModified) it had in L1, is
\* absent from L1, and Hybrid.get on it returns the item.
C11_MigratedIntact ==
  [][\A o1, o2 \in Orders, F \in MoveFaults :
       (/\ CapacityTick(o1, o2, F[1], F[2])
        /\ redisConnected
        /\ L1OverThreshold(l1))
       => \A k \in ManageHybridOut(l1, l2, o1, o2, F[1], F[2]).moved :
            /\ l2'[k].present
            /\ l2'[k].data = B64Decode(l1[k].data)
            /\ OrUndefined(l2'[k].meta) = OrUndefined(l1[k].meta)
            /\ ~l1'[k].present
            /\ LET g == HybGetOut(l1', l2', k, NoFault, NoFault, NoFault).op
               IN  g.res /\ g.data = B64Decode(l1[k].data)]_vars

\* C12: the keys a capacity cycle removes from a tier (migrated out of L1,
\* evicted from L2) are lowest-hitCount items of that tier: at the time of
\* selection no item that stays in the tier has a strictly lower hitCount
\* than an item that was removed.
C12_LowestHitRemoved ==
  [][\A o1, o2 \in Orders, F \in MoveFaults :
       CapacityTick(o1, o2, F[1], F[2]) =>
         LET mid == IF redisConnected /\ L1OverThreshold(l1)
                    THEN MoveItems(l1, l2,
                                   L1Items(l1, Ceil20(L1ItemCount(l1)), o1),
                                   F[1], F[2]).s2
                    ELSE l2
         IN  \A k, j \in Keys :
               /\ (l1[k].full /\ ~l1'[k].present /\ l1[j].full
                   /\ l1'[j].present)
                  => l1[j].hitCount >= l1[k].hitCount
               /\ (mid[k].present /\ ~l2'[k].present /\ mid[j].present
                   /\ l2'[j].present)
                  => mid[j].hitCount >= mid[k].hitCount]_vars


\* A streamed GET without Range has ended with an accurate Content-Length.
StreamedWhole(r) ==
  /\ r.phase = "done"
  /\ r.outcome = "end"
  /\ r.range = NoRange
  /\ r.advertised = ByteLen(r.origin)

\* C13: on the streaming path, for a GET without Range whose origin
\* Content-Length is accurate, an object of exactly S_MAX bytes is admitted
\* to the cache when the stream ends and an object of S_MAX + 1 bytes is not.
C13_LimitInclusive ==
  StreamedWhole(req) =>
    /\ (ByteLen(req.origin) = S_MAX =>
          req.fill.called /\ req.fill.data = Concat(req.origin))
    /\ (ByteLen(req.origin) = S_MAX + 1 => ~req.fill.called)

\* C14: a GET that carries a Range header never creates or replaces a cache
\* entry: no step of the request changes the cache, and the cache holds
\* nothing under the request's cache key.
C14_RangedNeverFills ==
  [][(req' # req /\ req'.range # NoRange)
       => /\ cdnCache' = cdnCache
          /\ ~cdnCache'[req'.cacheKey].present]_vars

\* C15: a GET without Range for which the cache returns an item is answered
\* from the cache (X-Cache HIT, the item's data, Content-Length the item's
\* size) without a call of the origin; the origin is called only after a
\* cache miss or for a ranged request, and a ranged request never reads the
\* cache.
C15_HitSkipsOrigin ==
  /\ (req.item.present =>
        /\ req.xcache = "HIT"
        /\ req.sent = req.item.data
        /\ req.resLength = req.item.size
        /\ req.originCalls = 0)
  /\ (req.xcache = "HIT" => req.item.present /\ req.range = NoRange)
  /\ (req.originCalls > 0 =>
        \/ req.range # NoRange
        \/ req.cacheReads = 1 /\ ~req.item.present)
  /\ (req.range # NoRange => req.cacheReads = 0 /\ ~req.item.present)

C15_Witness ==
  /\ req.xcache = "HIT"
  /\ req.item.present
  /\ req.sent # <<>>
  /\ req.originCalls = 0

\* C16: the streaming path fills the cache only from a complete origin body:
\* what it stores is the concatenation, in order, of all chunks of the body,
\* and a request whose client disconnected or whose origin stream failed
\* attempts no cache-fill.
C16_FillIsWholeBody ==
  /\ (req.fill.called =>
        /\ req.outcome = "end"
        /\ req.fill.data = Concat(req.origin))
  /\ (req.outcome \in {"error", "closed"} => ~req.fill.called)

\* C17: once the tee buffer has grown past S_MAX during a stream whose
\* advertised Content-Length was below S_MAX, the buffer is discarded, the
\* response goes on to deliver the whole body, and the request writes no
\* cache entry whatever chunks arrive afterwards.
C17_OverflowNeverFills ==
  (req.discarded /\ req.advertised < S_MAX) =>
    /\ ~req.fill.called
    /\ (req.outcome = "end" => req.sent = Concat(req.origin))

\* Hybrid.get(k) misses L1, hits L2 and writes the L2 item into L1.
Promotes(k, f1, f2, fp) ==
  /\ redisConnected /\ cassandraConnected
  /\ ~L1GetOut(l1, k, f1).op.res
  /\ L2GetOut(l2, k, f2).op.res
  /\ L1SetOut(L1GetOut(l1, k, f1).s, k, L2GetOut(l2, k, f2).op.data,
              L2GetOut(l2, k, f2).op.meta,
              PromoteTtl(L2GetOut(l2, k, f2).op.exp), fp).op.res

\* C18: when Hybrid.get(k) promotes an L2 hit into L1, the expiresAt of the
\* L1 copy is never later than the expiresAt of the L2 item, whatever
\* lifetime the L2 item has left, less than one second included.
C18_PromotionKeepsExpiry ==
  [][\A k \in Keys, f \in Faults, fp \in BOOLEAN :
       (HybGet(k, f[1], f[2], fp) /\ Promotes(k, f[1], f[2], fp))
         => /\ l1'[k].full
            /\ l1'[k].expiresAt <= l2[k].expiresAt]_vars

\* C19: CacheManager.initialize() whose backend fails to initialize in a
\* non-memory mode (for Hybrid: both tiers fail) does not throw and leaves
\* initialized = true, getMode() = 'memory' and getStats().mode = 'memory';
\* the get and set that follow are served by a fresh, empty Memory backend.
C19_InitFallsBack ==
  (mgr.call = "initialize" /\ mgr.failed) =>
    /\ mgr.ret = "returned"
    /\ mgr.initialized
    /\ getMode(mgr) = "memory"
    /\ StatsMode(mgr) = "memory"
    /\ mgr.backend = "MemoryCache"
    /\ mcache = <<>> /\ currentCacheSize = 0
    /\ \A k \in Keys :
         MgrGetOut(k).op.op = "mem.get" /\ ~MgrGetOut(k).op.res
    /\ \A k \in Keys, v \in MgrPayloads :
         /\ MgrSetOut(k, v).op.op = "mem.set"
         /\ MgrSetOut(k, v).op.res
         /\ NcKeys(MgrSetOut(k, v).mc) = <<k>>

C19_Witness ==
  /\ mgr.call = "initialize"
  /\ mgr.failed
  /\ mgr.mode = "memory"
  /\ mgr.initialized

\* C20: switchBackend(m) closes the current backend, then constructs and
\* initializes a backend for m; when that succeeds it returns true with
\* getMode() = m and initialized = true, when it fails it returns false and
\* the manager is on a Memory backend with getMode() = 'memory' and
\* initialized = true.
C20_SwitchBackend ==
  [][\A m \in Modes, r, c \in BOOLEAN :
       MgrSwitchBackend(m, r, c) =>
         LET b  == createBackend(m)
             ok == BackendInit(b, NowConn, r, c).ok
         IN  /\ l1conn' => (b \in {"RedisCache", "HybridCache"} /\ r)
             /\ l2conn' => (b \in {"CassandraCache", "HybridCache"} /\ c)
             /\ (mgr.initialized /\ mgr.backend = "MemoryCache")
                  => mcache' = <<>>
             /\ ok => /\ mgr'.ret = "true"
                      /\ getMode(mgr') = m
                      /\ mgr'.backend = b
                      /\ mgr'.initialized
             /\ ~ok => /\ mgr'.ret = "false"
                       /\ getMode(mgr') = "memory"
                       /\ mgr'.backend = "MemoryCache"
                       /\ mgr'.initialized]_vars

C20_Witness ==
  /\ mgr.call = "switchBackend"
  /\ mgr.ret = "false"
  /\ mgr.mode = "memory"
  /\ mgr.initialized

\* C21: a backend switch is a clean re-initialization: once switchBackend
\* has completed the Memory store holds none of the items set before, and
\* what get returns or exists reports on a Memory backend that was switched
\* to is nothing, whichever backends were in use in between.
C21_SwitchIsClean ==
  mgr.call = "switchBackend" =>
    /\ mcache = <<>>
    /\ \A k \in Keys :
         (MgrGetOut(k).op.res \/ MgrExistsOut(k).op.res)
           => mgr.backend # "MemoryCache"

\* A successful Memory set was the last data operation before the switch.
C21_Witness ==
  /\ mgr.call = "switchBackend"
  /\ last.op = "mem.set" /\ last.res
  /\ mgr.backend = "MemoryCache"

\* C22: while CacheManager.initialized is false the pass-through methods
\* return their defaults without a call of the backend: get null; set,
\* delete, exists, clear and isHealthy false; getStats with enabled = false
\* and connected = false.
Untouched(out, name) ==
  /\ out.op.op = name /\ ~out.op.res
  /\ out.mc = mcache /\ out.cur = currentCacheSize
  /\ out.s1 = l1 /\ out.s2 = l2
C22_NotInitializedDefaults ==
  (mgr.call # "" /\ ~mgr.initialized) =>
    /\ \A k \in Keys :
         /\ Untouched(MgrGetOut(k), "mgr.get")
         /\ Untouched(MgrDeleteOut(k), "mgr.delete")
         /\ Untouched(MgrExistsOut(k), "mgr.exists")
         /\ \A v \in MgrPayloads : Untouched(MgrSetOut(k, v), "mgr.set")
    /\ Untouched(MgrClearOut, "mgr.clear")
    /\ ~MgrIsHealthy
    /\ ~MgrStats.enabled /\ ~MgrStats.connected

\* The manager was closed while a remote store still holds an item.
C22_Witness ==
  /\ mgr.call = "close"
  /\ ~mgr.initialized
  /\ \E k \in Keys : l1[k].present \/ l2[k].present

\* C23: a Hybrid operation succeeds iff at least one tier succeeds:
\* initialize throws only when both tiers fail to connect; set, delete,
\* clear and incrementHitCount return true iff a connected tier returned
\* true, and false when neither tier is connected.
C23_OneTierSuffices ==
  /\ last.op = "hyb.initialize"
       => (last.res <=> (redisConnected \/ cassandraConnected))
  /\ \A k \in Keys, v \in MgrPayloads, f \in TierFaults :
       LET t1(r) == redisConnected /\ r.op.res
           t2(r) == cassandraConnected /\ r.op.res
           m == MetaOf(v)
       IN  /\ HybSetOut(l1, l2, k, v, m, 0, f[1], f[2]).op.res
                <=> (\/ t1(L1SetOut(l1, k, v, m, 0, f[1]))
                     \/ t2(L2SetOut(l2, k, v, m, 0, f[2])))
           /\ HybDeleteOut(l1, l2, k, f[1], f[2]).op.res
                <=> (\/ t1(L1DeleteOut(l1, k, f[1]))
                     \/ t2(L2DeleteOut(l2, k, f[2])))
           /\ HybClearOut(l1, l2, f[1], f[2]).op.res
                <=> (t1(L1ClearOut(l1, f[1])) \/ t2(L2ClearOut(l2, f[2])))
           /\ HybIncOut(l1, l2, k, f[1], f[2]).op.res
                <=> (t1(L1IncOut(l1, k, f[1])) \/ t2(L2IncOut(l2, k, f[2])))
           /\ (~redisConnected /\ ~cassandraConnected)
                => /\ ~HybSetOut(l1, l2, k, v, m, 0, f[1], f[2]).op.res
                   /\ ~HybDeleteOut(l1, l2, k, f[1], f[2]).op.res
                   /\ ~HybClearOut(l1, l2, f[1], f[2]).op.res
                   /\ ~HybIncOut(l1, l2, k, f[1], f[2]).op.res

\* A set returned true although only the L2 write succeeded.
C23_Witness ==
  /\ last.op = "hyb.set" /\ last.res
  /\ redisConnected /\ cassandraConnected
  /\ ~l1[last.key].present
  /\ l2[last.key].present

C24_WitnessMem ==
  /\ last.op = "mem.get" /\ ~last.res
  /\ errors.mem = 1
C24_WitnessHyb ==
  /\ last.op = "hyb.get" /\ ~last.res
  /\ errors.l1 = 1 /\ errors.l2 = 1

\* C25: a GET or HEAD whose object path is empty is answered 400 and
\* reaches neither the cache nor the origin.
C25_EmptyPathRejected ==
  (req.method \in {"GET", "HEAD"} /\ req.path = EmptyPath) =>
    /\ req.status = 400
    /\ req.cacheReads = 0
    /\ req.originCalls = 0 /\ req.originHeads = 0

\* The HEAD half of C25, which the handler keeps.
C25_HeadEmptyPathRejected ==
  (req.method = "HEAD" /\ req.path = EmptyPath) =>
    /\ req.status = 400
    /\ req.cacheReads = 0
    /\ req.originCalls = 0 /\ req.originHeads = 0
C25_HeadWitness == req.method = "HEAD" /\ req.path = EmptyPath

\* C26: when two concurrent Hybrid.set(k, v1) and Hybrid.set(k, v2) have
\* both completed, L1 and L2 hold the same value for k and Hybrid.get(k)
\* returns it, whatever the order in which the tier writes were applied.
C26_TiersAgreeAfterRace ==
  \A k \in Keys :
    (/\ redisConnected /\ cassandraConnected
     /\ \A c \in Callers : sets[c].phase = "done" /\ sets[c].key = k)
      => /\ B64Decode(l1[k].data) = l2[k].data
         /\ HybGetOut(l1, l2, k, FALSE, FALSE, FALSE).op.data = l2[k].data

C28_StopCancels ==
  /\ ~cap.isRunning => ~cap.intervalId
  /\ cap.late = 0

\* The first half of C28: with monitoring stopped the timer is cleared.
C28_NoNewTick == ~cap.isRunning => ~cap.intervalId

C30_HitCountCountsHits ==
  /\ \A k \in Keys :
       LET r == NcGet(mcache, k)
           stored(c) == c[NcIdx(c, k)].hitCount
           g == MemGetOut(k)
           i == MemIncOut(k)
           w == MemSetOut(k, Blob(1), 0)
       IN  /\ w.op.res => stored(w.c) = 0
           /\ r.found =>
                /\ stored(g.c) = r.e.hitCount + Bit(g.op.res)
                /\ stored(i.c) = r.e.hitCount + Bit(i.op.res)
  /\ \A k \in MgrKeys, f \in BOOLEAN :
       LET g == L1GetOut(l1, k, f)
           i == L1IncOut(l1, k, f)
           w == L1SetOut(l1, k, Blob(1), "v", 0, f)
       IN  /\ w.op.res => w.s[k].hitCount = 0
           /\ (L1Readable(l1[k]) /\ l1[k].expiresAt >= now) =>
                /\ g.s[k].hitCount = l1[k].hitCount + Bit(g.op.res)
                /\ i.s[k].hitCount = l1[k].hitCount + Bit(i.op.res)

\* The L1 half of C30 taken alone: a faulted Redis call neither hits nor counts.
C30_L1Only ==
  \A k \in MgrKeys, f \in BOOLEAN :
    LET g == L1GetOut(l1, k, f)
        i == L1IncOut(l1, k, f)
    IN  (L1Readable(l1[k]) /\ l1[k].expiresAt >= now) =>
          /\ g.s[k].hitCount = l1[k].hitCount + Bit(g.op.res)
          /\ i.s[k].hitCount = l1[k].hitCount + Bit(i.op.res)

\* C31: Hybrid.get(k) returns L1's item on an L1 hit and leaves L2 unread;
\* on an L1 miss with an L2 hit it returns L2's item and, once the
\* promotion write has gone through, L1 holds k with the same data and
\* metadata; it returns null only when every connected tier misses.
C31_GetReadsL1First ==
  \A k \in Keys, f \in Faults, fp \in BOOLEAN :
    LET o == HybGetOut(l1, l2, k, f[1], f[2], fp)
        r1 == L1GetOut(l1, k, f[1]).op
        r2 == L2GetOut(l2, k, f[2]).op
        hit1 == redisConnected /\ r1.res
        hit2 == cassandraConnected /\ r2.res
        same(a, b) == a.data = b.data /\ a.size = b.size /\ a.meta = b.meta
                      /\ a.exp = b.exp
    IN  /\ hit1 => o.op.res /\ same(o.op, r1) /\ o.s2 = l2
        /\ (~hit1 /\ hit2) =>
             /\ o.op.res /\ same(o.op, r2)
             /\ (redisConnected /\ l1conn /\ ~fp) =>
                  /\ o.s1[k].full
                  /\ B64Decode(o.s1[k].data) = r2.data
                  /\ o.s1[k].size = r2.size
                  /\ OrUndefined(o.s1[k].meta) = r2.meta
        /\ ~o.op.res <=> (~hit1 /\ ~hit2)

\* Both tiers are connected, L1 does not hold the key that L2 serves with a
\* proper metadata value, and the last get returned that item.
C31_Witness ==
  /\ last.op = "hyb.get" /\ last.res
  /\ redisConnected /\ cassandraConnected /\ l1conn /\ l2conn
  /\ \E k \in Keys :
       /\ ~l1[k].present
       /\ L2GetOut(l2, k, FALSE).op.res
       /\ l2[k].meta = "v"

C34_LoopSurvivesFailures ==
  \A ord \in Orders, n \in 0..MaxLimit, F2 \in SUBSET Keys, D \in SUBSET Keys,
     gone \in SUBSET Keys :
    LET drop1(s) == [k \in Keys |-> IF k \in gone THEN NoHash ELSE s[k]]
        drop2(s) == [k \in Keys |-> IF k \in gone THEN NoRow ELSE s[k]]
        sel1 == L1Items(l1, n, ord)
        sel2 == L2Items(l2, n, ord)
        m == MoveItems(drop1(l1), l2, sel1, F2, D)
        e1 == EvictL1(drop1(l1), sel1, D)
        e2 == EvictL2(drop2(l2), sel2, D)
    IN  /\ \A i \in 1..Len(sel1) :
             LET k == sel1[i].key
                 g == L1GetOut(drop1(l1), k, FALSE).op
             IN  /\ (g.res /\ l2conn /\ k \notin F2)
                      => /\ k \in m.moved
                         /\ m.s2[k].present /\ m.s2[k].data = g.data
                         /\ k \notin D => ~m.s1[k].present
                 /\ (k \notin D) => ~e1[k].present
        /\ \A i \in 1..Len(sel2) :
             (sel2[i].key \notin D) => ~e2[sel2[i].key].present

\* Both tiers hold both keys with a readable payload, so that a loop over
\* two selected keys can fail on the first and go on with the second.
C34_Witness ==
  /\ redisConnected /\ cassandraConnected /\ l1conn /\ l2conn
  /\ \A k \in Keys : L1Readable(l1[k]) /\ l2[k].present
  /\ Len(L1Items(l1, MaxLimit, CHOOSE o \in Orders : TRUE)) = 2

\* C35: a promotion launched by Hybrid.get(k) is not leaked: once a
\* Hybrid.delete(k) or Hybrid.clear() has completed and every call that was
\* under way has finished, Hybrid.exists(k) is false.
C35_NoLeakedPromotion ==
  \A k \in Keys :
    (/\ last.op \in {"hyb.delete", "hyb.clear"}
     /\ last.op = "hyb.delete" => last.key = k
     /\ \A c \in Callers : ~InFlight(c))
      => ~HybExists(l1, l2, k)

\* C36: CacheManager forwards get, set, delete, exists and clear only to a
\* backend that is open and initialized: whenever initialized is true the
\* current backend is connected and is of the kind getMode() names, also
\* while switchBackend is suspended at its close() or initialize() await.
BackendOpen(b, conn) ==
  CASE b = "RedisCache" -> conn.l1conn
    [] b = "CassandraCache" -> conn.l2conn
    [] b = "HybridCache" -> conn.redis \/ conn.cass
    [] OTHER -> TRUE
C36_ForwardsToOpenBackend ==
  Ready(mgr) => /\ BackendOpen(mgr.backend, NowConn)
                /\ mgr.backend = createBackend(getMode(mgr))

\* C37: at most one capacity cycle is executing at any time: no cycle
\* starts while an earlier one is still suspended on backend I/O.
C37_OneCycleAtATime ==
  Cardinality({c \in Cycles : Running(c)}) <= 1

\* C39: when a migration of key k that overlapped a HybridCache.set(k, v2)
\* has written its item, HybridCache.get(k) returns v2 or null, never the
\* older value the migration had read.
C39_NoOlderValueLeft ==
  [][\A c \in Cycles :
       (/\ cap.cycles[c].held # NoOp
        /\ cap'.cycles[c].held = NoOp
        /\ cap.cycles[c].newer # NoData)
         => HybGetOut(l1', l2', cap.cycles[c].held.key, FALSE, FALSE,
                      FALSE).op.data \in {cap.cycles[c].newer, NoData}]_vars

\* C38: in L1 a hit-count increment never creates an entry for an absent
\* key: after incrementHitCount(k) on a key that is not stored, exists(k)
\* is false and k is not counted in itemCount.
C38_IncrementCreatesNothing ==
  [][(/\ last'.op = "l1.incrementHitCount"
      /\ last' # last
      /\ ~L1Exists(l1, last'.key))
       => /\ ~L1Exists(l1', last'.key)
          /\ L1ItemCount(l1') = L1ItemCount(l1)]_vars

\* C40: migrating an item from L1 to L2 does not extend its lifetime: the
\* expiresAt of the L2 copy the migration writes is never later than the
\* expiresAt the item had in L1.
C40_MigrationKeepsExpiry ==
  [][\A k \in Keys :
       (/\ last'.op = "capacity.tick"
        /\ l1[k].present /\ ~l1'[k].present
        /\ l2'[k].present /\ l2'[k] # l2[k])
         => l2'[k].expiresAt <= l1[k].expiresAt]_vars

====
